---- MODULE Spec2Model ----
(***************************************************************************)
(* Persistent Vector of src/immutable/immutable.go, modelled on an         *)
(* explicit heap.  A Vector, a vectorNode and the backing array of a []T   *)
(* slice are heap objects with an address; a slice value is (ptr,len,cap); *)
(* an interface{} child slot is a tagged value.  Every operation is an     *)
(* operator from a heap to a result record [h, out, ret]: the heap after   *)
(* the call, "ok" or the panic it raised, and what it returned.            *)
(***************************************************************************)
EXTENDS Integers, Sequences, FiniteSets, TLC

VARIABLES heap, cur, old, last, mutated, snap, calls, pub

vars == <<heap, cur, old, last, mutated, snap, calls, pub>>

(* ------------------------------ bounds --------------------------------- *)

\* element values are 0..MaxVal; 0 is Go's zero value of T
MaxVal == 1

Values == 0..MaxVal

\* VectorOf is called with up to MaxInput values
MaxInput == 66

\* the keys of a Map and the elements of a Set are 0..MaxKey
MaxKey == 2

Keys == 0..MaxKey

(* --------------------------- program constants ------------------------- *)

vectorNodeSize == 32

vectorShift == 5

(* ------------------------------ the heap ------------------------------- *)

NIL == 0

\* a []T value: pointer to the backing array, length, capacity
Slice(p, n, c) == [ptr |-> p, len |-> n, cap |-> c]

\* the backing array of a []T
ArrayObj(elems) == [kind |-> "array", elems |-> elems]

\* type Vector[T] struct { root; tail; length; shift }
VectorObj(root, tail, length, shift) ==
    [kind |-> "vector", root |-> root, tail |-> tail, length |-> length, shift |-> shift]

\* type vectorNode[T] struct { children []interface{} }: the children slice and
\* its backing array are created with the node and never shared, so they are
\* kept inside the node object
NodeObj(children) == [kind |-> "node", children |-> children]

\* the dynamic types an interface{} child slot holds
INode(p) == [t |-> "node", p |-> p, s |-> Slice(NIL, 0, 0), x |-> 0]

ISlice(s) == [t |-> "slice", p |-> NIL, s |-> s, x |-> 0]

IElem(x) == [t |-> "elem", p |-> NIL, s |-> Slice(NIL, 0, 0), x |-> x]

\* type Pair[K, V] struct { Key; Value }
Pair(k, v) == [Key |-> k, Value |-> v]

\* type Map[K, V] struct { pairs []Pair[K, V] }
MapObj(pairs) == [kind |-> "map", pairs |-> pairs]

\* type Set[T] struct { inner *Map[T, struct{}] }
SetObj(inner) == [kind |-> "set", inner |-> inner]

\* type List[T] struct { head *listNode[T]; size int }
ListObj(head, size) == [kind |-> "list", head |-> head, size |-> size]

\* type listNode[T] struct { value T; next *listNode[T] }
ListNodeObj(value, next) == [kind |-> "lnode", value |-> value, next |-> next]

\* a fresh address: the lowest one not in use
Fresh(h) == CHOOSE a \in 1..(Cardinality(DOMAIN h) + 1) : a \notin DOMAIN h

\* the elements s[0:len(s)] of a slice
SliceElems(h, s) == SubSeq(h[s.ptr].elems, 1, s.len)

\* the function f on 1..n as a sequence value
Seq1(f, n) == SubSeq(f, 1, n)

(* --------------------------- call results ------------------------------ *)

OK == "ok"

OutOfBounds == "out of bounds"

TypeAssertion == "interface conversion"

IndexOutOfRange == "index out of range"

NilDeref == "nil pointer dereference"

Ret(h, out, ret) == [h |-> h, out |-> out, ret |-> ret]

(* ------------------------- Vector operations --------------------------- *)

\* make([]T, n, c) followed by copy(dst, src): a fresh backing array of c
\* cells holding the first elements of src, zero elsewhere
MakeCopy(c, src) == Seq1([i \in 1..c |-> IF i <= Len(src) THEN src[i] ELSE 0], c)

\* allocate obj at a fresh address; the address is the result
New(h, obj) == LET a == Fresh(h) IN Ret(h @@ (a :> obj), OK, a)

\* EmptyVector recording the height of a tree of leaf blocks only, shift: 0
EmptyVectorFlat(h) ==
    LET t == New(h, ArrayObj(MakeCopy(vectorNodeSize, <<>>)))
    IN  New(t.h, VectorObj(NIL, Slice(t.ret, 0, vectorNodeSize), 0, 0))

\* func EmptyVector[T any]() *Vector[T]
EmptyVector(h) ==
    LET t == New(h, ArrayObj(MakeCopy(vectorNodeSize, <<>>)))
    IN  New(t.h, VectorObj(NIL, Slice(t.ret, 0, vectorNodeSize), 0, vectorShift))

\* (index >> level) & (vectorNodeSize - 1), for index >= 0
SubIdx(index, level) == (index \div (2 ^ level)) % vectorNodeSize

\* pushTail taking the leaf-node branch at every level: the tail becomes one
\* more child of the root
pushTailFlat(h, v, level, node, tail) ==
    IF node = NIL
    THEN New(h, NodeObj(<<ISlice(tail)>>))
    ELSE New(h, NodeObj(Append(h[node].children, ISlice(tail))))

\* func (v *Vector[T]) pushTail(level uint, node *vectorNode[T], tail []T)
RECURSIVE pushTail(_, _, _, _, _)
pushTail(h, v, level, node, tail) ==
    IF node = NIL
    THEN New(h, NodeObj(<<ISlice(tail)>>))
    ELSE IF level = 0
    THEN New(h, NodeObj(Append(h[node].children, ISlice(tail))))
    ELSE LET subIdx == SubIdx(h[v].length - 1, level)
             kids   == h[node].children
         IN  IF subIdx >= Len(kids)
             THEN Ret(h, IndexOutOfRange, NIL)
             ELSE IF kids[subIdx + 1].t # "node"
             THEN Ret(h, TypeAssertion, NIL)
             ELSE LET c == pushTail(h, v, level - vectorShift, kids[subIdx + 1].p, tail)
                  IN  IF c.out # OK
                      THEN c
                      ELSE New(c.h, NodeObj([kids EXCEPT ![subIdx + 1] = INode(c.ret)]))

\* the tail-has-room branch of Append growing the tail in its own backing
\* array, newTail := append(v.tail, value), when the capacity allows
AppendTailShared(h, v, value) ==
    LET V  == h[v]
        n  == V.tail.len
    IN  IF n < V.tail.cap
        THEN New([h EXCEPT ![V.tail.ptr].elems[n + 1] = value],
                 VectorObj(V.root, Slice(V.tail.ptr, n + 1, V.tail.cap),
                           V.length + 1, V.shift))
        ELSE LET t == New(h, ArrayObj([MakeCopy(vectorNodeSize, SliceElems(h, V.tail))
                                          EXCEPT ![n + 1] = value]))
             IN  New(t.h, VectorObj(V.root, Slice(t.ret, n + 1, vectorNodeSize),
                                    V.length + 1, V.shift))

\* the tail-has-room branch of Append without copy(newTail, v.tail)
AppendTailNoCopy(h, v, value) ==
    LET V  == h[v]
        n  == V.tail.len
        t  == New(h, ArrayObj([MakeCopy(vectorNodeSize, <<>>) EXCEPT ![n + 1] = value]))
    IN  New(t.h, VectorObj(V.root, Slice(t.ret, n + 1, vectorNodeSize),
                           V.length + 1, V.shift))

\* the tail-has-room branch of Append
AppendTail(h, v, value) ==
    LET V  == h[v]
        n  == V.tail.len
        t  == New(h, ArrayObj([MakeCopy(vectorNodeSize, SliceElems(h, V.tail))
                                  EXCEPT ![n + 1] = value]))
    IN  New(t.h, VectorObj(V.root, Slice(t.ret, n + 1, vectorNodeSize),
                           V.length + 1, V.shift))

\* the tail-is-full branch of Append counting the element on the receiver
\* (v.length++) before the tail is pushed
AppendFullCountFirst(h, v, value) ==
    LET h1 == [h EXCEPT ![v].length = @ + 1]
        V  == h1[v]
        r  == pushTail(h1, v, V.shift, V.root, V.tail)
    IN  IF r.out # OK
        THEN r
        ELSE LET t == New(r.h, ArrayObj(<<value>>))
             IN  New(t.h, VectorObj(r.ret, Slice(t.ret, 1, 1), V.length, V.shift))

\* the tail-is-full branch of Append returning length: v.length
AppendFullKeepLength(h, v, value) ==
    LET V == h[v]
        r == pushTail(h, v, V.shift, V.root, V.tail)
    IN  IF r.out # OK
        THEN r
        ELSE LET t == New(r.h, ArrayObj(<<value>>))
             IN  New(t.h, VectorObj(r.ret, Slice(t.ret, 1, 1), V.length, V.shift))

\* the tail-is-full branch of Append returning shift: v.shift + vectorShift
AppendFullRaiseShift(h, v, value) ==
    LET V == h[v]
        r == pushTail(h, v, V.shift, V.root, V.tail)
    IN  IF r.out # OK
        THEN r
        ELSE LET t == New(r.h, ArrayObj(<<value>>))
             IN  New(t.h, VectorObj(r.ret, Slice(t.ret, 1, 1), V.length + 1,
                                    V.shift + vectorShift))

\* the tail-is-full branch of Append
AppendFull(h, v, value) ==
    LET V == h[v]
        r == pushTail(h, v, V.shift, V.root, V.tail)
    IN  IF r.out # OK
        THEN r
        ELSE LET t == New(r.h, ArrayObj(<<value>>))
             IN  New(t.h, VectorObj(r.ret, Slice(t.ret, 1, 1), V.length + 1, V.shift))

\* func (v *Vector[T]) Append(value T) *Vector[T]
VAppend(h, v, value) ==
    IF h[v].tail.len < vectorNodeSize
    THEN AppendTail(h, v, value)
    ELSE AppendFull(h, v, value)

\* the descent loop of Get: for level := v.shift; level > 0; level -= vectorShift
RECURSIVE GetDescend(_, _, _, _)
GetDescend(h, node, level, index) ==
    IF node = NIL
    THEN Ret(h, NilDeref, 0)
    ELSE LET kids == h[node].children
         IN  IF level > 0
             THEN LET subIdx == SubIdx(index, level)
                  IN  IF subIdx >= Len(kids)
                      THEN Ret(h, IndexOutOfRange, 0)
                      ELSE IF kids[subIdx + 1].t # "node"
                      THEN Ret(h, TypeAssertion, 0)
                      ELSE GetDescend(h, kids[subIdx + 1].p, level - vectorShift, index)
             ELSE LET subIdx == SubIdx(index, 0)
                  IN  IF subIdx >= Len(kids)
                      THEN Ret(h, IndexOutOfRange, 0)
                      ELSE IF kids[subIdx + 1].t # "elem"
                      THEN Ret(h, TypeAssertion, 0)
                      ELSE Ret(h, OK, kids[subIdx + 1].x)

\* Get with the upper bound checked as index > v.length: the index one past
\* the end reaches the tail read, where the slice index check stops it
GetOffByOne(h, v, index) ==
    LET V == h[v]
    IN  IF index < 0 \/ index > V.length
        THEN Ret(h, OutOfBounds, 0)
        ELSE IF index >= V.length - V.tail.len
        THEN IF index - (V.length - V.tail.len) >= V.tail.len
             THEN Ret(h, IndexOutOfRange, 0)
             ELSE Ret(h, OK, h[V.tail.ptr].elems[index - (V.length - V.tail.len) + 1])
        ELSE GetDescend(h, V.root, V.shift, index)

\* Get reading the tail at the index itself, v.tail[index]
GetTailUnshifted(h, v, index) ==
    LET V == h[v]
    IN  IF index < 0 \/ index >= V.length
        THEN Ret(h, OutOfBounds, 0)
        ELSE IF index >= V.length - V.tail.len
        THEN IF index >= V.tail.len
             THEN Ret(h, IndexOutOfRange, 0)
             ELSE Ret(h, OK, h[V.tail.ptr].elems[index + 1])
        ELSE GetDescend(h, V.root, V.shift, index)

\* func (v *Vector[T]) Get(index int) T
Get(h, v, index) ==
    LET V == h[v]
    IN  IF index < 0 \/ index >= V.length
        THEN Ret(h, OutOfBounds, 0)
        ELSE IF index >= V.length - V.tail.len
        THEN Ret(h, OK, h[V.tail.ptr].elems[index - (V.length - V.tail.len) + 1])
        ELSE GetDescend(h, V.root, V.shift, index)

\* func (v *Vector[T]) setNode(level uint, node *vectorNode[T], index int, value T)
RECURSIVE setNode(_, _, _, _, _, _)
setNode(h, v, level, node, index, value) ==
    IF node = NIL
    THEN Ret(h, NilDeref, NIL)
    ELSE LET kids   == h[node].children
             subIdx == SubIdx(index, level)
         IN  IF level = 0
             THEN IF subIdx >= Len(kids)
                  THEN Ret(h, IndexOutOfRange, NIL)
                  ELSE New(h, NodeObj([kids EXCEPT ![subIdx + 1] = IElem(value)]))
             ELSE IF subIdx >= Len(kids)
             THEN Ret(h, IndexOutOfRange, NIL)
             ELSE IF kids[subIdx + 1].t # "node"
             THEN Ret(h, TypeAssertion, NIL)
             ELSE LET c == setNode(h, v, level - vectorShift, kids[subIdx + 1].p, index, value)
                  IN  IF c.out # OK
                      THEN c
                      ELSE New(c.h, NodeObj([kids EXCEPT ![subIdx + 1] = INode(c.ret)]))

\* the tail branch of Set writing v.tail itself instead of a clone
SetTailInPlace(h, v, index, value) ==
    LET V  == h[v]
        h1 == [h EXCEPT ![V.tail.ptr].elems[index - (V.length - V.tail.len) + 1] = value]
    IN  New(h1, VectorObj(V.root, V.tail, V.length, V.shift))

\* the tail branch of Set returning a Vector without the tree, root: nil
SetTailDropRoot(h, v, index, value) ==
    LET V == h[v]
        n == V.tail.len
        t == New(h, ArrayObj([MakeCopy(n, SliceElems(h, V.tail))
                                 EXCEPT ![index - (V.length - n) + 1] = value]))
    IN  New(t.h, VectorObj(NIL, Slice(t.ret, n, n), V.length, V.shift))

\* the tail branch of Set: clone the tail and write the clone
SetTail(h, v, index, value) ==
    LET V == h[v]
        n == V.tail.len
        t == New(h, ArrayObj([MakeCopy(n, SliceElems(h, V.tail))
                                 EXCEPT ![index - (V.length - n) + 1] = value]))
    IN  New(t.h, VectorObj(V.root, Slice(t.ret, n, n), V.length, V.shift))

\* the tree branch of Set: path copy by setNode, the tail slice is shared
SetTree(h, v, index, value) ==
    LET V == h[v]
        r == setNode(h, v, V.shift, V.root, index, value)
    IN  IF r.out # OK
        THEN r
        ELSE New(r.h, VectorObj(r.ret, V.tail, V.length, V.shift))

\* func (v *Vector[T]) Set(index int, value T) *Vector[T]
Set(h, v, index, value) ==
    LET V == h[v]
    IN  IF index < 0 \/ index >= V.length
        THEN Ret(h, OutOfBounds, NIL)
        ELSE IF index >= V.length - V.tail.len
        THEN SetTail(h, v, index, value)
        ELSE SetTree(h, v, index, value)

\* func (v *Vector[T]) Length() int
Length(h, v) == h[v].length

\* IsEmpty asking whether there is a tree, return v.root == nil
IsEmptyNoRoot(h, v) == h[v].root = NIL

\* func (v *Vector[T]) IsEmpty() bool
IsEmpty(h, v) == h[v].length = 0

(* ------------------------- garbage collection -------------------------- *)

\* the addresses an object points to
Refs(obj) ==
    IF obj.kind = "vector" THEN {obj.root, obj.tail.ptr} \ {NIL}
    ELSE IF obj.kind = "node"
    THEN ({obj.children[i].p : i \in 1..Len(obj.children)}
          \cup {obj.children[i].s.ptr : i \in 1..Len(obj.children)}) \ {NIL}
    ELSE IF obj.kind = "map" THEN {obj.pairs.ptr} \ {NIL}
    ELSE IF obj.kind = "set" THEN {obj.inner} \ {NIL}
    ELSE IF obj.kind = "list" THEN {obj.head} \ {NIL}
    ELSE IF obj.kind = "lnode" THEN {obj.next} \ {NIL}
    ELSE {}

\* the addresses reachable from the set S
RECURSIVE Reach(_, _)
Reach(h, S) ==
    LET T == S \cup UNION {Refs(h[a]) : a \in S}
    IN  IF T = S THEN S ELSE Reach(h, T)

\* drop what a loop variable no longer reaches; objects at the addresses in
\* keep (those that existed before the call) are never collected
Collect(h, keep, locals) ==
    LET live == keep \cup Reach(h, locals \ {NIL})
    IN  [a \in live |-> h[a]]

(* --------------------------- bulk operations --------------------------- *)

\* a func(T) T is the sequence of its values, f(x) = f[x + 1];
\* a func(T) bool is the sequence of 0/1 of its values
Apply(f, x) == f[x + 1]

Holds(p, x) == p[x + 1] = 1

\* the loop of VectorOf: v = v.Append(value) for each value
RECURSIVE VectorOfLoop(_, _, _, _, _)
VectorOfLoop(h, keep, values, i, v) ==
    IF i > Len(values)
    THEN Ret(h, OK, v)
    ELSE LET a == VAppend(h, v, values[i])
         IN  IF a.out # OK
             THEN Ret(a.h, a.out, NIL)
             ELSE VectorOfLoop(Collect(a.h, keep, {a.ret}), keep, values, i + 1, a.ret)

\* func VectorOf[T any](values ...T) *Vector[T]
VectorOf(h, values) ==
    LET e == EmptyVector(h)
    IN  VectorOfLoop(e.h, DOMAIN h, values, 1, e.ret)

\* the body of Map's loop: result = result.Append(f(v.Get(i)))
MapBody(h, keep, v, f, i, result) ==
    LET g == Get(h, v, i)
    IN  IF g.out # OK
        THEN Ret(g.h, g.out, NIL)
        ELSE LET a == VAppend(g.h, result, Apply(f, g.ret))
             IN  IF a.out # OK
                 THEN Ret(a.h, a.out, NIL)
                 ELSE Ret(Collect(a.h, keep, {a.ret}), OK, a.ret)

\* the loop of Map: for i := 0; i < v.length; i++
RECURSIVE MapLoop(_, _, _, _, _, _)
MapLoop(h, keep, v, f, i, result) ==
    IF i >= h[v].length
    THEN Ret(h, OK, result)
    ELSE LET b == MapBody(h, keep, v, f, i, result)
         IN  IF b.out # OK THEN b ELSE MapLoop(b.h, keep, v, f, i + 1, b.ret)

\* func (v *Vector[T]) Map(f func(T) T) *Vector[T]
Map(h, v, f) ==
    IF IsEmpty(h, v)
    THEN Ret(h, OK, v)
    ELSE LET e == EmptyVector(h)
         IN  MapLoop(e.h, DOMAIN h, v, f, 0, e.ret)

\* the body of Filter's loop appending without asking the predicate
FilterBodyKeepAll(h, keep, v, p, i, result) ==
    LET g == Get(h, v, i)
    IN  IF g.out # OK
        THEN Ret(g.h, g.out, NIL)
        ELSE LET a == VAppend(g.h, result, g.ret)
             IN  IF a.out # OK
                 THEN Ret(a.h, a.out, NIL)
                 ELSE Ret(Collect(a.h, keep, {a.ret}), OK, a.ret)

\* the body of Filter's loop: result = result.Append(value) when
\* predicate(value)
FilterBody(h, keep, v, p, i, result) ==
    LET g == Get(h, v, i)
    IN  IF g.out # OK
        THEN Ret(g.h, g.out, NIL)
        ELSE IF ~Holds(p, g.ret)
        THEN Ret(g.h, OK, result)
        ELSE LET a == VAppend(g.h, result, g.ret)
             IN  IF a.out # OK
                 THEN Ret(a.h, a.out, NIL)
                 ELSE Ret(Collect(a.h, keep, {a.ret}), OK, a.ret)

\* the loop of Filter: for i := 0; i < v.length; i++
RECURSIVE FilterLoop(_, _, _, _, _, _)
FilterLoop(h, keep, v, p, i, result) ==
    IF i >= h[v].length
    THEN Ret(h, OK, result)
    ELSE LET b == FilterBody(h, keep, v, p, i, result)
         IN  IF b.out # OK THEN b ELSE FilterLoop(b.h, keep, v, p, i + 1, b.ret)

\* func (v *Vector[T]) Filter(predicate func(T) bool) *Vector[T]
Filter(h, v, p) ==
    IF IsEmpty(h, v)
    THEN Ret(h, OK, v)
    ELSE LET e == EmptyVector(h)
         IN  FilterLoop(e.h, DOMAIN h, v, p, 0, e.ret)

\* the body of ToSlice's loop: result[i] = v.Get(i)
ToSliceBody(h, v, i, result) ==
    LET g == Get(h, v, i)
    IN  IF g.out # OK
        THEN Ret(g.h, g.out, Slice(NIL, 0, 0))
        ELSE IF i >= result.len
        THEN Ret(g.h, IndexOutOfRange, Slice(NIL, 0, 0))
        ELSE Ret([g.h EXCEPT ![result.ptr].elems[i + 1] = g.ret], OK, result)

\* the loop of ToSlice: for i := 0; i < v.length; i++
RECURSIVE ToSliceLoop(_, _, _, _)
ToSliceLoop(h, v, i, result) ==
    IF i >= h[v].length
    THEN Ret(h, OK, result)
    ELSE LET b == ToSliceBody(h, v, i, result)
         IN  IF b.out # OK THEN b ELSE ToSliceLoop(b.h, v, i + 1, b.ret)

\* result := make([]T, v.length)
ToSliceMake(h, v) ==
    LET n == h[v].length
        r == New(h, ArrayObj(MakeCopy(n, <<>>)))
    IN  Ret(r.h, OK, Slice(r.ret, n, n))

\* func (v *Vector[T]) ToSlice() []T
ToSlice(h, v) ==
    LET m == ToSliceMake(h, v)
    IN  ToSliceLoop(m.h, v, 0, m.ret)

\* the body of ForEach's loop: f(v.Get(i)); the calls of f are the result
ForEachBody(h, v, i, seen) ==
    LET g == Get(h, v, i)
    IN  IF g.out # OK
        THEN Ret(g.h, g.out, seen)
        ELSE Ret(g.h, OK, Append(seen, g.ret))

\* the loop of ForEach: for i := 0; i < v.length; i++
RECURSIVE ForEachLoop(_, _, _, _)
ForEachLoop(h, v, i, seen) ==
    IF i >= h[v].length
    THEN Ret(h, OK, seen)
    ELSE LET b == ForEachBody(h, v, i, seen)
         IN  IF b.out # OK THEN b ELSE ForEachLoop(b.h, v, i + 1, b.ret)

\* func (v *Vector[T]) ForEach(f func(T))
ForEach(h, v) == ForEachLoop(h, v, 0, <<>>)

(* ----------------------------- Map operations -------------------------- *)

\* the zero value of Pair[K, V]
ZeroPair == Pair(0, 0)

\* the backing array of make([]Pair[K, V], 0, c) after the appends that gave it
\* the elements q
PairArray(q, c) == ArrayObj(Seq1([i \in 1..c |-> IF i <= Len(q) THEN q[i] ELSE ZeroPair], c))

\* func EmptyMap[K comparable, V any]() *Map[K, V]
EmptyMap(h) ==
    LET a == New(h, PairArray(<<>>, 0))
    IN  New(a.h, MapObj(Slice(a.ret, 0, 0)))

\* the loop of Map.Set forgetting found = true when it updates the key
RECURSIVE MapSetLoopNoFound(_, _, _, _, _, _)
MapSetLoopNoFound(src, i, key, value, newPairs, found) ==
    IF i > Len(src)
    THEN [pairs |-> newPairs, found |-> found]
    ELSE IF src[i].Key = key
    THEN MapSetLoopNoFound(src, i + 1, key, value, Append(newPairs, Pair(key, value)), found)
    ELSE MapSetLoopNoFound(src, i + 1, key, value, Append(newPairs, src[i]), found)

\* the loop of Map.Set: for _, pair := range m.pairs
RECURSIVE MapSetLoop(_, _, _, _, _, _)
MapSetLoop(src, i, key, value, newPairs, found) ==
    IF i > Len(src)
    THEN [pairs |-> newPairs, found |-> found]
    ELSE IF src[i].Key = key
    THEN MapSetLoop(src, i + 1, key, value, Append(newPairs, Pair(key, value)), TRUE)
    ELSE MapSetLoop(src, i + 1, key, value, Append(newPairs, src[i]), found)

\* Map.Set appending the pair without looking for the key
MapSetAppendOnly(h, m, key, value) ==
    LET src == SliceElems(h, h[m].pairs)
        c   == Len(src) + 1
        q   == Append(src, Pair(key, value))
        a   == New(h, PairArray(q, c))
    IN  New(a.h, MapObj(Slice(a.ret, Len(q), c)))

\* func (m *Map[K, V]) Set(key K, value V) *Map[K, V]
MapSet(h, m, key, value) ==
    LET src == SliceElems(h, h[m].pairs)
        c   == Len(src) + 1
        l   == MapSetLoop(src, 1, key, value, <<>>, FALSE)
        q   == IF l.found THEN l.pairs ELSE Append(l.pairs, Pair(key, value))
        a   == New(h, PairArray(q, c))
    IN  New(a.h, MapObj(Slice(a.ret, Len(q), c)))

\* the loop of Map.Get: the first pair with the key
RECURSIVE MapGetLoop(_, _, _)
MapGetLoop(src, i, key) ==
    IF i > Len(src) THEN <<0, FALSE>>
    ELSE IF src[i].Key = key THEN <<src[i].Value, TRUE>>
    ELSE MapGetLoop(src, i + 1, key)

\* func (m *Map[K, V]) Get(key K) (V, bool)
MapGet(h, m, key) == Ret(h, OK, MapGetLoop(SliceElems(h, h[m].pairs), 1, key))

\* func (m *Map[K, V]) Delete(key K) *Map[K, V]
MapDelete(h, m, key) ==
    LET src == SliceElems(h, h[m].pairs)
        q   == SelectSeq(src, LAMBDA pair : pair.Key # key)
        a   == New(h, PairArray(q, Len(src)))
    IN  New(a.h, MapObj(Slice(a.ret, Len(q), Len(src))))

\* func (m *Map[K, V]) Size() int
MapSize(h, m) == h[m].pairs.len

\* func (m *Map[K, V]) Contains(key K) bool
MapContains(h, m, key) == MapGet(h, m, key).ret[2]

\* the loop of MapOf: m = m.Set(pair.Key, pair.Value)
RECURSIVE MapOfLoop(_, _, _, _, _)
MapOfLoop(h, keep, pairs, i, m) ==
    IF i > Len(pairs)
    THEN Ret(h, OK, m)
    ELSE LET r == MapSet(h, m, pairs[i].Key, pairs[i].Value)
         IN  MapOfLoop(Collect(r.h, keep, {r.ret}), keep, pairs, i + 1, r.ret)

\* func MapOf[K comparable, V any](pairs ...Pair[K, V]) *Map[K, V]
MapOf(h, pairs) ==
    LET e == EmptyMap(h)
    IN  MapOfLoop(e.h, DOMAIN h, pairs, 1, e.ret)

\* func (m *Map[K, V]) Map(f func(V) V) *Map[K, V]
MapMap(h, m, f) ==
    LET src == SliceElems(h, h[m].pairs)
        e   == EmptyMap(h)
        RECURSIVE Loop(_, _, _)
        Loop(g, i, result) ==
            IF i > Len(src)
            THEN Ret(g, OK, result)
            ELSE LET r == MapSet(g, result, src[i].Key, Apply(f, src[i].Value))
                 IN  Loop(Collect(r.h, DOMAIN h, {r.ret}), i + 1, r.ret)
    IN  Loop(e.h, 1, e.ret)

\* func (m *Map[K, V]) Filter(predicate func(K, V) bool) *Map[K, V]; the
\* predicate p asks whether the field p.on of the pair is at least p.t
MapFilter(h, m, p) ==
    LET src == SliceElems(h, h[m].pairs)
        e   == EmptyMap(h)
        RECURSIVE Loop(_, _, _)
        Loop(g, i, result) ==
            IF i > Len(src)
            THEN Ret(g, OK, result)
            ELSE IF src[i][p.on] < p.t
            THEN Loop(g, i + 1, result)
            ELSE LET r == MapSet(g, result, src[i].Key, src[i].Value)
                 IN  Loop(Collect(r.h, DOMAIN h, {r.ret}), i + 1, r.ret)
    IN  Loop(e.h, 1, e.ret)

\* func (m *Map[K, V]) Keys() []K
MapKeys(h, m) ==
    LET src == SliceElems(h, h[m].pairs)
        n   == Len(src)
        a   == New(h, ArrayObj(Seq1([i \in 1..n |-> src[i].Key], n)))
    IN  Ret(a.h, OK, Slice(a.ret, n, n))

\* func (m *Map[K, V]) Values() []V
MapValues(h, m) ==
    LET src == SliceElems(h, h[m].pairs)
        n   == Len(src)
        a   == New(h, ArrayObj(Seq1([i \in 1..n |-> src[i].Value], n)))
    IN  Ret(a.h, OK, Slice(a.ret, n, n))

\* func (m *Map[K, V]) ToSlice() []Pair[K, V]: return m.pairs
MapToSlice(h, m) == Ret(h, OK, h[m].pairs)

\* all there is to see of a Map: its pairs in order, its Size and what Get
\* returns for every key
MapLook(h, m) ==
    [pairs |-> SliceElems(h, h[m].pairs), size |-> MapSize(h, m),
     gets |-> Seq1([i \in 1..(MaxKey + 1) |-> MapGet(h, m, i - 1).ret], MaxKey + 1)]

(* ----------------------------- Set operations -------------------------- *)

\* func EmptySet[T comparable]() *Set[T]
EmptySet(h) ==
    LET m == EmptyMap(h)
    IN  New(m.h, SetObj(m.ret))

\* func (s *Set[T]) Add(value T) *Set[T]; struct{}{} is the value 0
SetAdd(h, s, value) ==
    LET m == MapSet(h, h[s].inner, value, 0)
    IN  New(m.h, SetObj(m.ret))

\* func (s *Set[T]) Remove(value T) *Set[T]
SetRemove(h, s, value) ==
    LET m == MapDelete(h, h[s].inner, value)
    IN  New(m.h, SetObj(m.ret))

\* func (s *Set[T]) Contains(value T) bool
SetContains(h, s, value) == MapGet(h, h[s].inner, value).ret[2]

\* func (s *Set[T]) Size() int
SetSize(h, s) == MapSize(h, h[s].inner)

\* the loop of SetOf: s = s.Add(value)
RECURSIVE SetOfLoop(_, _, _, _, _)
SetOfLoop(h, keep, values, i, s) ==
    IF i > Len(values)
    THEN Ret(h, OK, s)
    ELSE LET r == SetAdd(h, s, values[i])
         IN  SetOfLoop(Collect(r.h, keep, {r.ret}), keep, values, i + 1, r.ret)

\* func SetOf[T comparable](values ...T) *Set[T]
SetOf(h, values) ==
    LET e == EmptySet(h)
    IN  SetOfLoop(e.h, DOMAIN h, values, 1, e.ret)

\* the keys other.inner.ForEach / s.inner.ForEach passes to its callback
SetKeys(h, s) ==
    LET q == SliceElems(h, h[h[s].inner].pairs)
    IN  Seq1([i \in 1..Len(q) |-> q[i].Key], Len(q))

\* the callbacks of Union, Intersection and Difference: result = result.Add(key)
\* for the keys that pass; take is TRUE for Union, and for the others tells
\* whether other must contain the key
RECURSIVE SetCollect(_, _, _, _, _, _, _)
SetCollect(h, keep, keys, i, other, take, result) ==
    IF i > Len(keys)
    THEN Ret(h, OK, result)
    ELSE IF other # NIL /\ SetContains(h, other, keys[i]) # take
    THEN SetCollect(h, keep, keys, i + 1, other, take, result)
    ELSE LET r == SetAdd(h, result, keys[i])
         IN  SetCollect(Collect(r.h, keep, {r.ret}), keep, keys, i + 1,
                        other, take, r.ret)

\* Union collecting into EmptySet() instead of s
SetUnionFromEmpty(h, s, other) ==
    LET e == EmptySet(h)
    IN  SetCollect(e.h, DOMAIN h, SetKeys(h, other), 1, NIL, TRUE, e.ret)

\* func (s *Set[T]) Union(other *Set[T]) *Set[T]
SetUnion(h, s, other) ==
    SetCollect(h, DOMAIN h, SetKeys(h, other), 1, NIL, TRUE, s)

\* func (s *Set[T]) Intersection(other *Set[T]) *Set[T]
SetIntersection(h, s, other) ==
    LET e == EmptySet(h)
    IN  SetCollect(e.h, DOMAIN h, SetKeys(h, s), 1, other, TRUE, e.ret)

\* func (s *Set[T]) Difference(other *Set[T]) *Set[T]
SetDifference(h, s, other) ==
    LET e == EmptySet(h)
    IN  SetCollect(e.h, DOMAIN h, SetKeys(h, s), 1, other, FALSE, e.ret)

\* all there is to see of a Set: its elements in order, its Size and what
\* Contains returns for every element
SetLook(h, s) ==
    [elems |-> SetKeys(h, s), size |-> SetSize(h, s),
     contains |-> Seq1([i \in 1..(MaxKey + 1) |-> SetContains(h, s, i - 1)], MaxKey + 1)]

(* ----------------------------- List operations ------------------------- *)

\* panic("List.Head: empty list")
EmptyListPanic == "List.Head: empty list"

\* func EmptyList[T any]() *List[T]
EmptyList(h) == New(h, ListObj(NIL, 0))

\* the loop of ListOf: head = &listNode{value: values[i], next: head}, from the
\* last value down to the first
RECURSIVE ListOfLoop(_, _, _, _)
ListOfLoop(h, values, i, head) ==
    IF i < 1
    THEN Ret(h, OK, head)
    ELSE LET n == New(h, ListNodeObj(values[i], head))
         IN  ListOfLoop(n.h, values, i - 1, n.ret)

\* func ListOf[T any](values ...T) *List[T]
ListOf(h, values) ==
    IF Len(values) = 0
    THEN EmptyList(h)
    ELSE LET r == ListOfLoop(h, values, Len(values), NIL)
         IN  New(r.h, ListObj(r.ret, Len(values)))

\* func (l *List[T]) IsEmpty() bool
ListIsEmpty(h, l) == h[l].head = NIL

\* func (l *List[T]) Size() int
ListSize(h, l) == h[l].size

\* Cons leaving size as it was
ConsKeepSize(h, l, value) ==
    LET n == New(h, ListNodeObj(value, h[l].head))
    IN  New(n.h, ListObj(n.ret, h[l].size))

\* func (l *List[T]) Cons(value T) *List[T]
Cons(h, l, value) ==
    LET n == New(h, ListNodeObj(value, h[l].head))
    IN  New(n.h, ListObj(n.ret, h[l].size + 1))

\* func (l *List[T]) Head() T
ListHead(h, l) ==
    IF ListIsEmpty(h, l)
    THEN Ret(h, EmptyListPanic, 0)
    ELSE Ret(h, OK, h[h[l].head].value)

\* func (l *List[T]) Tail() *List[T]
ListTail(h, l) ==
    IF ListIsEmpty(h, l)
    THEN Ret(h, OK, l)
    ELSE New(h, ListObj(h[h[l].head].next, h[l].size - 1))

\* the loop of ToSlice: result[i] = node.value; i++
RECURSIVE ListToSliceLoop(_, _, _, _)
ListToSliceLoop(h, node, i, result) ==
    IF node = NIL
    THEN Ret(h, OK, result)
    ELSE IF i >= Len(result)
    THEN Ret(h, IndexOutOfRange, result)
    ELSE ListToSliceLoop(h, h[node].next, i + 1,
                         [result EXCEPT ![i + 1] = h[node].value])

\* func (l *List[T]) ToSlice() []T; the result is the contents of the slice
ListToSlice(h, l) ==
    IF ListIsEmpty(h, l)
    THEN Ret(h, OK, <<>>)
    ELSE ListToSliceLoop(h, h[l].head, 0, MakeCopy(h[l].size, <<>>))

\* all there is to see of a List: its elements in order, its Size, whether it
\* IsEmpty and what Head returns
ListLook(h, l) ==
    [elems |-> <<ListToSlice(h, l).out, ListToSlice(h, l).ret>>,
     size |-> ListSize(h, l),
     empty |-> ListIsEmpty(h, l),
     head |-> <<ListHead(h, l).out, ListHead(h, l).ret>>]

(* ----------------------- abstraction and canonical heap ---------------- *)

\* the elements below an interface{} slot, left to right
RECURSIVE Flatten(_, _)
Flatten(h, c) ==
    IF c.t = "elem" THEN <<c.x>>
    ELSE IF c.t = "slice" THEN SliceElems(h, c.s)
    ELSE IF c.p = NIL THEN <<>>
    ELSE LET kids == h[c.p].children
             RECURSIVE Cat(_)
             Cat(i) == IF i > Len(kids) THEN <<>> ELSE Flatten(h, kids[i]) \o Cat(i + 1)
         IN  Cat(1)

\* the sequence a Vector stands for: the tree's elements, then the tail's
Elems(h, v) == Flatten(h, INode(h[v].root)) \o SliceElems(h, h[v].tail)

\* the addresses an object points to, in field order
RefSeq(obj) ==
    IF obj.kind = "vector" THEN <<obj.root, obj.tail.ptr>>
    ELSE IF obj.kind = "node"
    THEN [i \in 1..Len(obj.children) |->
            IF obj.children[i].t = "node" THEN obj.children[i].p
            ELSE obj.children[i].s.ptr]
    ELSE IF obj.kind = "map" THEN <<obj.pairs.ptr>>
    ELSE IF obj.kind = "set" THEN <<obj.inner>>
    ELSE IF obj.kind = "list" THEN <<obj.head>>
    ELSE IF obj.kind = "lnode" THEN <<obj.next>>
    ELSE <<>>

Range(q) == {q[i] : i \in 1..Len(q)}

\* the reachable addresses in depth-first order from the roots
RECURSIVE Visit(_, _, _)
Visit(h, todo, seen) ==
    IF todo = <<>> THEN seen
    ELSE IF Head(todo) = NIL \/ Head(todo) \in Range(seen)
    THEN Visit(h, Tail(todo), seen)
    ELSE Visit(h, RefSeq(h[Head(todo)]) \o Tail(todo), Append(seen, Head(todo)))

\* the new address of a under the order
Ren(order, a) == IF a = NIL THEN NIL ELSE CHOOSE i \in 1..Len(order) : order[i] = a

RenSlice(order, s) == Slice(Ren(order, s.ptr), s.len, s.cap)

RenObj(order, obj) ==
    IF obj.kind = "vector"
    THEN VectorObj(Ren(order, obj.root), RenSlice(order, obj.tail), obj.length, obj.shift)
    ELSE IF obj.kind = "node"
    THEN NodeObj(Seq1([i \in 1..Len(obj.children) |->
                         [obj.children[i] EXCEPT !.p = Ren(order, @),
                                                 !.s = RenSlice(order, @)]],
                      Len(obj.children)))
    ELSE IF obj.kind = "map" THEN MapObj(RenSlice(order, obj.pairs))
    ELSE IF obj.kind = "set" THEN SetObj(Ren(order, obj.inner))
    ELSE IF obj.kind = "list" THEN ListObj(Ren(order, obj.head), obj.size)
    ELSE IF obj.kind = "lnode" THEN ListNodeObj(obj.value, Ren(order, obj.next))
    ELSE obj

\* the heap after collection, addresses renamed to their place in the order
Compact(h, order) == Seq1([i \in 1..Len(order) |-> RenObj(order, h[order[i]])], Len(order))

(* ------------------------------ observation ---------------------------- *)

\* what is below an interface{} slot, without the addresses
RECURSIVE Deep(_, _)
Deep(h, c) ==
    IF c.t = "elem" THEN <<"elem", c.x>>
    ELSE IF c.t = "slice" THEN <<"slice", SliceElems(h, c.s)>>
    ELSE IF c.p = NIL THEN <<"nil">>
    ELSE <<"node", Seq1([i \in 1..Len(h[c.p].children) |-> Deep(h, h[c.p].children[i])],
                        Len(h[c.p].children))>>

\* the outcome of v.Get(j) for every valid j
Gets(h, v) ==
    Seq1([j \in 1..h[v].length |-> LET g == Get(h, v, j - 1) IN <<g.out, g.ret>>],
         h[v].length)

\* all there is to see of a Vector: its fields, the contents of every node and
\* array it reaches, and what Get returns
Observe(h, v) ==
    [root |-> Deep(h, INode(h[v].root)), tail |-> SliceElems(h, h[v].tail),
     length |-> h[v].length, shift |-> h[v].shift, gets |-> Gets(h, v)]

NoObs == [root |-> <<"nil">>, tail |-> <<>>, length |-> 0, shift |-> 0, gets |-> <<>>]

(* ------------------------------ the client ----------------------------- *)
(* A sequential client holds a Vector, cur, and the version it had before, *)
(* old.  It calls one operation on cur (last records the call, its         *)
(* receiver and what came back), and then either goes on with the Vector   *)
(* the call returned (Assign: u, v = v, w) or lets the result go (Drop).   *)
(* The code never looks at the elements, so the client goes on only with   *)
(* Vectors whose elements are a prefix of one of its input streams; every  *)
(* call is still made with every argument.  snap is what the client saw of *)
(* cur and old when it got them.                                           *)
(***************************************************************************)

\* the input stream k: k, 2k, 3k, ... modulo MaxVal + 1
Stream(k, n) == Seq1([i \in 1..n |-> (k * i) % (MaxVal + 1)], n)

\* the argument lists the client passes to VectorOf
Inputs == {Stream(k, n) : n \in 0..MaxInput, k \in Values}

IsStream(e) == \E k \in Values : e = Stream(k, Len(e))

\* the func(T) T arguments the client passes: x -> x + d modulo MaxVal + 1
Funcs == {Seq1([i \in 1..(MaxVal + 1) |-> (i - 1 + d) % (MaxVal + 1)], MaxVal + 1) : d \in Values}

\* the func(T) bool arguments the client passes: x -> x >= t
Preds == {Seq1([i \in 1..(MaxVal + 1) |-> IF i - 1 >= t THEN 1 ELSE 0], MaxVal + 1) : t \in Values}

\* the indices the client passes to Get and Set on a Vector of length n
Indexes(n) == (-1..n) \cup {-vectorNodeSize, n + vectorNodeSize}

NoSlice == Slice(NIL, 0, 0)

Idle == [op |-> "idle", recv |-> NIL, index |-> 0, value |-> 0, fn |-> <<>>,
         out |-> OK, retv |-> NIL, retx |-> 0, rets |-> NoSlice, allocs |-> 0]

\* The end of a call.  r is the call's result; retv, retx, rets are the Vector,
\* element or slice it returned.  cur, old and the result stay referenced,
\* everything else is collected.  allocs counts the objects the call left
\* allocated; mutated records whether the call wrote to an object that existed
\* before it.
Done(op, index, value, fn, r, retv, retx, rets) ==
    LET order == Visit(r.h, <<cur, old, retv, rets.ptr>>, <<>>)
    IN  /\ heap' = Compact(r.h, order)
        /\ cur' = Ren(order, cur)
        /\ old' = Ren(order, old)
        /\ last' = [op |-> op, recv |-> Ren(order, cur), index |-> index,
                    value |-> value, fn |-> fn, out |-> r.out,
                    retv |-> Ren(order, retv), retx |-> retx,
                    rets |-> RenSlice(order, rets),
                    allocs |-> Cardinality(DOMAIN r.h \ DOMAIN heap)]
        /\ mutated' = \E a \in DOMAIN heap : a \notin DOMAIN r.h \/ r.h[a] # heap[a]
        /\ UNCHANGED <<snap, calls, pub>>

RetV(r) == IF r.out = OK THEN r.ret ELSE NIL

Init ==
    LET e == EmptyVector(<<>>)
        order == Visit(e.h, <<e.ret>>, <<>>)
    IN  /\ heap = Compact(e.h, order)
        /\ cur = Ren(order, e.ret)
        /\ old = NIL
        /\ last = Idle
        /\ mutated = FALSE
        /\ snap = [cur |-> Observe(e.h, e.ret), old |-> NoObs]
        /\ calls = <<>>
        /\ pub = <<>>

\* w := EmptyVector()
EmptyVectorOp ==
    /\ last.op = "idle"
    /\ LET r == EmptyVector(heap)
       IN  Done("EmptyVector", 0, 0, <<>>, r, r.ret, 0, NoSlice)

\* w := VectorOf(values...), the first call of a client
VectorOfOp ==
    /\ last.op = "idle"
    /\ old = NIL
    /\ \E values \in Inputs :
          LET r == VectorOf(heap, values)
          IN  Done("VectorOf", Len(values), 0, values, r, RetV(r), 0, NoSlice)

\* w := v.Append(x)
AppendOp ==
    /\ last.op = "idle"
    /\ \E x \in Values :
          LET r == VAppend(heap, cur, x)
          IN  Done("Append", 0, x, <<>>, r, RetV(r), 0, NoSlice)

\* v.Get(i)
GetOp ==
    /\ last.op = "idle"
    /\ \E i \in Indexes(Length(heap, cur)) :
          LET r == Get(heap, cur, i)
          IN  Done("Get", i, 0, <<>>, r, NIL, r.ret, NoSlice)

\* w := v.Set(i, x)
SetOp ==
    /\ last.op = "idle"
    /\ \E i \in Indexes(Length(heap, cur)), x \in Values :
          LET r == Set(heap, cur, i, x)
          IN  Done("Set", i, x, <<>>, r, RetV(r), 0, NoSlice)

\* w := v.Map(f)
MapOp ==
    /\ last.op = "idle"
    /\ \E f \in Funcs :
          LET r == Map(heap, cur, f)
          IN  Done("Map", 0, 0, f, r, RetV(r), 0, NoSlice)

\* w := v.Filter(p)
FilterOp ==
    /\ last.op = "idle"
    /\ \E p \in Preds :
          LET r == Filter(heap, cur, p)
          IN  Done("Filter", 0, 0, p, r, RetV(r), 0, NoSlice)

\* s := v.ToSlice()
ToSliceOp ==
    /\ last.op = "idle"
    /\ LET r == ToSlice(heap, cur)
       IN  Done("ToSlice", 0, 0, <<>>, r, NIL, 0, r.ret)

\* v.ForEach(f), f recording its arguments in fn
ForEachOp ==
    /\ last.op = "idle"
    /\ LET r == ForEach(heap, cur)
       IN  Done("ForEach", 0, 0, r.ret, r, NIL, 0, NoSlice)

\* u, v = v, w: the client goes on with the Vector the call returned and keeps
\* the version it had
Assign ==
    /\ last.op # "idle"
    /\ last.retv # NIL
    /\ IsStream(Elems(heap, last.retv))
    /\ LET order == Visit(heap, <<last.retv, cur>>, <<>>)
       IN  /\ heap' = Compact(heap, order)
           /\ cur' = Ren(order, last.retv)
           /\ old' = Ren(order, cur)
    /\ last' = Idle
    /\ mutated' = FALSE
    /\ snap' = [cur |-> Observe(heap, last.retv), old |-> snap.cur]
    /\ UNCHANGED <<calls, pub>>

\* the client lets the result go
Drop ==
    /\ last.op # "idle"
    /\ LET order == Visit(heap, <<cur, old>>, <<>>)
       IN  /\ heap' = Compact(heap, order)
           /\ cur' = Ren(order, cur)
           /\ old' = Ren(order, old)
    /\ last' = Idle
    /\ mutated' = FALSE
    /\ UNCHANGED <<snap, calls, pub>>

Next ==
    \/ EmptyVectorOp
    \/ VectorOfOp
    \/ AppendOp
    \/ GetOp
    \/ SetOp
    \/ MapOp
    \/ FilterOp
    \/ ToSliceOp
    \/ ForEachOp
    \/ Assign
    \/ Drop

Spec == Init /\ [][Next]_vars

(* ---------------------------- goroutines ------------------------------- *)
(* Two goroutines are handed the same two Vectors, cur and old, where cur  *)
(* was derived from old and shares what the code makes it share.  Each     *)
(* makes one call, with no lock.  heap holds the published objects; the    *)
(* objects a goroutine allocates stay its own (priv) until its call        *)
(* returns, so it runs on heap \o priv.  A step is one call of Get, Set,   *)
(* Append or Length, or one iteration of a loop of Map, Filter, ToSlice or *)
(* ForEach, and reads the published objects as they are at that moment.    *)
(* pub is the published heap as it was handed over.  Every step is        *)
(* monitored for a write to a published object (mutated); as long as there *)
(* is none, the reads of the goroutines commute, so splitting a step into  *)
(* its single memory reads would add no outcome.                           *)
(***************************************************************************)

Threads == {1, 2}

\* how the two Vectors were made: the length of old, and the call on old that
\* gave cur ("same": cur is old).  Up to vectorNodeSize elements the versions
\* share nothing; at vectorNodeSize the tail array of old becomes the leaf of
\* cur; above it they share the root.
Scenarios ==
    {<<0, "same">>, <<1, "Append">>, <<2, "Set">>,
     <<vectorNodeSize, "Append">>,
     <<vectorNodeSize + 1, "Append">>, <<vectorNodeSize + 2, "Set">>,
     <<2 * vectorNodeSize - 1, "Append">>, <<2 * vectorNodeSize, "Set">>}

\* the indices a goroutine passes to Get and Set on a Vector of length n
ConcIndexes(n) == {0, n - 1, n}

\* how cur was derived from old
Derive(h, v, how) ==
    IF how = "Append" THEN VAppend(h, v, MaxVal)
    ELSE IF how = "Set" THEN Set(h, v, h[v].length - 1, MaxVal)
    ELSE Ret(h, OK, v)

IdleCall == [pc |-> "idle", op |-> "none", recv |-> NIL, index |-> 0, value |-> 0,
             fn |-> <<>>, i |-> 0, out |-> OK, retv |-> NIL, retx |-> 0,
             rets |-> NoSlice, seen |-> <<>>, priv |-> <<>>]

InitConc ==
    \E sc \in Scenarios :
        LET a == VectorOf(<<>>, Stream(1, sc[1]))
            b == Derive(a.h, a.ret, sc[2])
            order == Visit(b.h, <<b.ret, a.ret>>, <<>>)
        IN  /\ b.out = OK
            /\ heap = Compact(b.h, order)
            /\ pub = Compact(b.h, order)
            /\ cur = Ren(order, b.ret)
            /\ old = Ren(order, a.ret)
            /\ snap = [cur |-> Observe(b.h, b.ret), old |-> Observe(b.h, a.ret)]
            /\ last = Idle
            /\ mutated = FALSE
            /\ calls = <<IdleCall, IdleCall>>

\* the memory goroutine t runs on
View(t) == heap \o calls[t].priv

\* go v.op(args): goroutine t is given its call; the goroutines are numbered
\* in the order of their go statements
CallOp(t) ==
    /\ calls[t].pc = "idle"
    /\ \A u \in Threads : u < t => calls[u].pc # "idle"
    /\ \E v \in {cur, old} :
          \E c \in
             {[op |-> "Get", index |-> j, value |-> 0, fn |-> <<>>] : j \in ConcIndexes(heap[v].length)}
             \cup {[op |-> "Set", index |-> j, value |-> x, fn |-> <<>>] :
                      j \in ConcIndexes(heap[v].length), x \in Values}
             \cup {[op |-> "Append", index |-> 0, value |-> x, fn |-> <<>>] : x \in Values}
             \cup {[op |-> "Map", index |-> 0, value |-> 0, fn |-> f] : f \in Funcs}
             \cup {[op |-> "Filter", index |-> 0, value |-> 0, fn |-> p] : p \in Preds}
             \cup {[op |-> o, index |-> 0, value |-> 0, fn |-> <<>>] :
                      o \in {"Length", "ToSlice", "ForEach"}} :
             calls' = [calls EXCEPT ![t] = [IdleCall EXCEPT !.pc = "start", !.op = c.op,
                                               !.recv = v, !.index = c.index,
                                               !.value = c.value, !.fn = c.fn]]
    /\ UNCHANGED <<heap, cur, old, last, mutated, snap, pub>>

\* The end of a step of goroutine t that left memory r.h: its locals retv and
\* rets keep its own objects alive, the rest of them is collected.  mutated
\* records whether any step so far wrote to a published object.
Step(t, r, pc, i, retv, retx, rets, seen) ==
    LET n == Len(heap)
        order == Visit(r.h, <<retv, rets.ptr>>, Seq1([a \in 1..n |-> a], n))
        full == Compact(r.h, order)
    IN  /\ heap' = SubSeq(full, 1, n)
        /\ calls' = [calls EXCEPT ![t] =
                        [@ EXCEPT !.pc = pc, !.i = i, !.out = r.out,
                                  !.retv = Ren(order, retv), !.retx = retx,
                                  !.rets = RenSlice(order, rets), !.seen = seen,
                                  !.priv = SubSeq(full, n + 1, Len(full))]]
        /\ mutated' = (mutated \/ SubSeq(full, 1, n) # heap)
        /\ UNCHANGED <<cur, old, last, snap, pub>>

Running(t, op) == calls[t].op = op /\ calls[t].pc \in {"start", "loop"}

LoopPc(r) == IF r.out = OK THEN "loop" ELSE "done"

GetStep(t) ==
    /\ Running(t, "Get")
    /\ LET r == Get(View(t), calls[t].recv, calls[t].index)
       IN  Step(t, r, "done", 0, NIL, r.ret, NoSlice, <<>>)

SetStep(t) ==
    /\ Running(t, "Set")
    /\ LET r == Set(View(t), calls[t].recv, calls[t].index, calls[t].value)
       IN  Step(t, r, "done", 0, RetV(r), 0, NoSlice, <<>>)

AppendStep(t) ==
    /\ Running(t, "Append")
    /\ LET r == VAppend(View(t), calls[t].recv, calls[t].value)
       IN  Step(t, r, "done", 0, RetV(r), 0, NoSlice, <<>>)

LengthStep(t) ==
    /\ Running(t, "Length")
    /\ Step(t, Ret(View(t), OK, 0), "done", 0, NIL, Length(View(t), calls[t].recv), NoSlice, <<>>)

MapStep(t) ==
    /\ Running(t, "Map")
    /\ LET c == calls[t]
       IN  IF c.pc = "start"
           THEN IF IsEmpty(View(t), c.recv)
                THEN Step(t, Ret(View(t), OK, 0), "done", 0, c.recv, 0, NoSlice, <<>>)
                ELSE LET e == EmptyVector(View(t))
                     IN  Step(t, e, "loop", 0, e.ret, 0, NoSlice, <<>>)
           ELSE IF c.i >= View(t)[c.recv].length
           THEN Step(t, Ret(View(t), OK, 0), "done", c.i, c.retv, 0, NoSlice, <<>>)
           ELSE LET b == MapBody(View(t), DOMAIN heap, c.recv, c.fn, c.i, c.retv)
                IN  Step(t, b, LoopPc(b), c.i + 1, b.ret, 0, NoSlice, <<>>)

FilterStep(t) ==
    /\ Running(t, "Filter")
    /\ LET c == calls[t]
       IN  IF c.pc = "start"
           THEN IF IsEmpty(View(t), c.recv)
                THEN Step(t, Ret(View(t), OK, 0), "done", 0, c.recv, 0, NoSlice, <<>>)
                ELSE LET e == EmptyVector(View(t))
                     IN  Step(t, e, "loop", 0, e.ret, 0, NoSlice, <<>>)
           ELSE IF c.i >= View(t)[c.recv].length
           THEN Step(t, Ret(View(t), OK, 0), "done", c.i, c.retv, 0, NoSlice, <<>>)
           ELSE LET b == FilterBody(View(t), DOMAIN heap, c.recv, c.fn, c.i, c.retv)
                IN  Step(t, b, LoopPc(b), c.i + 1, b.ret, 0, NoSlice, <<>>)

ToSliceStep(t) ==
    /\ Running(t, "ToSlice")
    /\ LET c == calls[t]
       IN  IF c.pc = "start"
           THEN LET m == ToSliceMake(View(t), c.recv)
                IN  Step(t, m, "loop", 0, NIL, 0, m.ret, <<>>)
           ELSE IF c.i >= View(t)[c.recv].length
           THEN Step(t, Ret(View(t), OK, 0), "done", c.i, NIL, 0, c.rets, <<>>)
           ELSE LET b == ToSliceBody(View(t), c.recv, c.i, c.rets)
                IN  Step(t, b, LoopPc(b), c.i + 1, NIL, 0, b.ret, <<>>)

ForEachStep(t) ==
    /\ Running(t, "ForEach")
    /\ LET c == calls[t]
       IN  IF c.i >= View(t)[c.recv].length
           THEN Step(t, Ret(View(t), OK, 0), "done", c.i, NIL, 0, NoSlice, c.seen)
           ELSE LET b == ForEachBody(View(t), c.recv, c.i, c.seen)
                IN  Step(t, b, LoopPc(b), c.i + 1, NIL, 0, NoSlice, b.ret)

NextConc ==
    \E t \in Threads :
        \/ CallOp(t)
        \/ GetStep(t)
        \/ SetStep(t)
        \/ AppendStep(t)
        \/ LengthStep(t)
        \/ MapStep(t)
        \/ FilterStep(t)
        \/ ToSliceStep(t)
        \/ ForEachStep(t)

SpecConc == InitConc /\ [][NextConc]_vars

\* what a caller can see of the result ret of a call of op that ended with out
\* in memory h
ResultView(op, h, out, ret) ==
    IF out # OK THEN <<out>>
    ELSE IF op \in {"Get", "Length", "ForEach"} THEN <<OK, ret>>
    ELSE IF op = "ToSlice" THEN <<OK, SliceElems(h, ret)>>
    ELSE <<OK, Observe(h, ret)>>

\* what goroutine t's call returned
Returned(t) ==
    LET c == calls[t]
    IN  ResultView(c.op, View(t), c.out,
                   IF c.op \in {"Get", "Length"} THEN c.retx
                   ELSE IF c.op = "ForEach" THEN c.seen
                   ELSE IF c.op = "ToSlice" THEN c.rets
                   ELSE c.retv)

\* the call c made on memory h with nothing else running
Run(h, c) ==
    IF c.op = "Get" THEN Get(h, c.recv, c.index)
    ELSE IF c.op = "Set" THEN Set(h, c.recv, c.index, c.value)
    ELSE IF c.op = "Append" THEN VAppend(h, c.recv, c.value)
    ELSE IF c.op = "Length" THEN Ret(h, OK, Length(h, c.recv))
    ELSE IF c.op = "Map" THEN Map(h, c.recv, c.fn)
    ELSE IF c.op = "Filter" THEN Filter(h, c.recv, c.fn)
    ELSE IF c.op = "ToSlice" THEN ToSlice(h, c.recv)
    ELSE ForEach(h, c.recv)

\* what goroutine t's call returns when it is the only one running
Alone(t) ==
    LET r == Run(pub, calls[t])
    IN  ResultView(calls[t].op, r.h, r.out, r.ret)

(* ------------------------- appending 0, 1, 2, ... ---------------------- *)
(* The client appends the integers 0, 1, 2, ... one at a time, starting    *)
(* from EmptyVector(), and reads the Vector it has with Get.               *)
(***************************************************************************)

\* the client appends up to MaxAppends integers
MaxAppends == 34

\* 0, 1, ..., n - 1
Iota(n) == Seq1([i \in 1..n |-> i - 1], n)

\* all there is to see of the object at p
Look(h, p) ==
    IF p = NIL THEN NoObs
    ELSE IF h[p].kind = "map" THEN MapLook(h, p)
    ELSE IF h[p].kind = "set" THEN SetLook(h, p)
    ELSE IF h[p].kind = "list" THEN ListLook(h, p)
    ELSE Observe(h, p)

\* v = v.Append(n) for the next integer n
AppendNextOp ==
    /\ last.op = "idle"
    /\ Length(heap, cur) < MaxAppends
    /\ LET r == VAppend(heap, cur, Length(heap, cur))
       IN  Done("Append", 0, Length(heap, cur), <<>>, r, RetV(r), 0, NoSlice)

\* u, v = v, w for whatever the call returned
Adopt ==
    /\ last.op # "idle"
    /\ last.retv # NIL
    /\ LET order == Visit(heap, <<last.retv, cur>>, <<>>)
       IN  /\ heap' = Compact(heap, order)
           /\ cur' = Ren(order, last.retv)
           /\ old' = Ren(order, cur)
    /\ last' = Idle
    /\ mutated' = FALSE
    /\ snap' = [cur |-> Look(heap, last.retv), old |-> snap.cur]
    /\ UNCHANGED <<calls, pub>>

NextIota ==
    \/ AppendNextOp
    \/ GetOp
    \/ Adopt
    \/ Drop

SpecIota == Init /\ [][NextIota]_vars

(* ---------------------------- the Map client --------------------------- *)
(* The client holds a Map, cur, calls one operation on it and either goes  *)
(* on with the Map the call returned or lets it go.                        *)
(***************************************************************************)

\* MapOf is called with up to MaxPairs pairs
MaxPairs == 2

RECURSIVE PairSeqs(_)
PairSeqs(n) ==
    IF n = 0 THEN {<<>>}
    ELSE {Append(q, Pair(k, v)) : q \in PairSeqs(n - 1), k \in Keys, v \in Values}

\* the argument lists the client passes to MapOf
PairInputs == UNION {PairSeqs(n) : n \in 0..MaxPairs}

InitMap ==
    LET e == EmptyMap(<<>>)
        order == Visit(e.h, <<e.ret>>, <<>>)
    IN  /\ heap = Compact(e.h, order)
        /\ cur = Ren(order, e.ret)
        /\ old = NIL
        /\ last = Idle
        /\ mutated = FALSE
        /\ snap = [cur |-> Look(e.h, e.ret), old |-> NoObs]
        /\ calls = <<>>
        /\ pub = <<>>

\* w := MapOf(pairs...), the first call of a client
MapOfOp ==
    /\ last.op = "idle"
    /\ MapSize(heap, cur) = 0
    /\ \E pairs \in PairInputs :
          LET r == MapOf(heap, pairs)
          IN  Done("MapOf", Len(pairs), 0, pairs, r, r.ret, 0, NoSlice)

\* w := m.Set(k, v)
MapSetOp ==
    /\ last.op = "idle"
    /\ \E k \in Keys, v \in Values :
          LET r == MapSet(heap, cur, k, v)
          IN  Done("Map.Set", k, v, <<>>, r, r.ret, 0, NoSlice)

\* v, ok := m.Get(k)
MapGetOp ==
    /\ last.op = "idle"
    /\ \E k \in Keys :
          LET r == MapGet(heap, cur, k)
          IN  Done("Map.Get", k, 0, <<>>, r, NIL, r.ret, NoSlice)

\* w := m.Delete(k)
MapDeleteOp ==
    /\ last.op = "idle"
    /\ \E k \in Keys :
          LET r == MapDelete(heap, cur, k)
          IN  Done("Map.Delete", k, 0, <<>>, r, r.ret, 0, NoSlice)

\* n := m.Size()
MapSizeOp ==
    /\ last.op = "idle"
    /\ Done("Map.Size", 0, 0, <<>>, Ret(heap, OK, 0), NIL, MapSize(heap, cur), NoSlice)

\* w := m.Map(f)
MapMapOp ==
    /\ last.op = "idle"
    /\ \E f \in Funcs :
          LET r == MapMap(heap, cur, f)
          IN  Done("Map.Map", 0, 0, f, r, r.ret, 0, NoSlice)

\* w := m.Filter(predicate)
MapFilterOp ==
    /\ last.op = "idle"
    /\ \E on \in {"Key", "Value"}, t \in Values :
          LET p == [on |-> on, t |-> t]
              r == MapFilter(heap, cur, p)
          IN  Done("Map.Filter", 0, 0, p, r, r.ret, 0, NoSlice)

\* v = w: the client goes on with what the call returned
Replace ==
    /\ last.op # "idle"
    /\ last.retv # NIL
    /\ LET order == Visit(heap, <<last.retv, old>>, <<>>)
       IN  /\ heap' = Compact(heap, order)
           /\ cur' = Ren(order, last.retv)
           /\ old' = Ren(order, old)
    /\ last' = Idle
    /\ mutated' = FALSE
    /\ snap' = [snap EXCEPT !.cur = Look(heap, last.retv)]
    /\ UNCHANGED <<calls, pub>>

NextMap ==
    \/ MapOfOp
    \/ MapSetOp
    \/ MapGetOp
    \/ MapDeleteOp
    \/ MapSizeOp
    \/ MapMapOp
    \/ MapFilterOp
    \/ Replace
    \/ Drop

SpecMap == InitMap /\ [][NextMap]_vars

(* ------------------- the Map client that takes slices ------------------- *)
(* The client of a Map also asks for its pairs, keys or values as a slice   *)
(* and writes an element of the slice it got; the write is the last thing   *)
(* this client does.                                                        *)
(***************************************************************************)

\* s := m.ToSlice()
MapToSliceOp ==
    /\ last.op = "idle"
    /\ LET r == MapToSlice(heap, cur)
       IN  Done("Map.ToSlice", 0, 0, <<>>, r, NIL, 0, r.ret)

\* s := m.Keys()
MapKeysOp ==
    /\ last.op = "idle"
    /\ LET r == MapKeys(heap, cur)
       IN  Done("Map.Keys", 0, 0, <<>>, r, NIL, 0, r.ret)

\* s := m.Values()
MapValuesOp ==
    /\ last.op = "idle"
    /\ LET r == MapValues(heap, cur)
       IN  Done("Map.Values", 0, 0, <<>>, r, NIL, 0, r.ret)

\* s[i] = x, on the slice the last call returned
WriteOp ==
    /\ last.op \in {"Map.ToSlice", "Map.Keys", "Map.Values"}
    /\ \E i \in 0..(last.rets.len - 1), k \in Keys, v \in Values :
          LET x == IF last.op = "Map.ToSlice" THEN Pair(k, v)
                   ELSE IF last.op = "Map.Keys" THEN k
                   ELSE v
          IN  /\ heap' = [heap EXCEPT ![last.rets.ptr].elems[i + 1] = x]
              /\ last' = [last EXCEPT !.op = "s[i] = x", !.index = i, !.fn = <<last.op>>]
    /\ UNCHANGED <<cur, old, mutated, snap, calls, pub>>

\* the client lets the result of a call go, unless it has written a slice
Release ==
    /\ last.op # "s[i] = x"
    /\ Drop

NextMapSlices ==
    \/ MapOfOp
    \/ MapSetOp
    \/ MapGetOp
    \/ MapDeleteOp
    \/ MapSizeOp
    \/ MapMapOp
    \/ MapFilterOp
    \/ MapToSliceOp
    \/ MapKeysOp
    \/ MapValuesOp
    \/ WriteOp
    \/ Replace
    \/ Release

SpecMapSlices == InitMap /\ [][NextMapSlices]_vars

(* ---------------------------- the Set client --------------------------- *)
(* The client holds two Sets, cur and old, calls one operation on cur      *)
(* (with old as the other Set of Union, Intersection and Difference) and   *)
(* either goes on with the Set the call returned, keeping cur as old, or   *)
(* lets it go.                                                             *)
(***************************************************************************)

\* SetOf is called with up to MaxElems values
MaxElems == 3

RECURSIVE KeySeqs(_)
KeySeqs(n) ==
    IF n = 0 THEN {<<>>}
    ELSE {Append(q, k) : q \in KeySeqs(n - 1), k \in Keys}

\* the argument lists the client passes to SetOf
KeyInputs == UNION {KeySeqs(n) : n \in 0..MaxElems}

InitSet ==
    LET e == EmptySet(<<>>)
        order == Visit(e.h, <<e.ret>>, <<>>)
    IN  /\ heap = Compact(e.h, order)
        /\ cur = Ren(order, e.ret)
        /\ old = NIL
        /\ last = Idle
        /\ mutated = FALSE
        /\ snap = [cur |-> Look(e.h, e.ret), old |-> NoObs]
        /\ calls = <<>>
        /\ pub = <<>>

\* w := SetOf(values...), the first calls of a client
SetOfOp ==
    /\ last.op = "idle"
    /\ IF old = NIL THEN TRUE ELSE SetSize(heap, old) = 0
    /\ \E values \in KeyInputs :
          LET r == SetOf(heap, values)
          IN  Done("SetOf", Len(values), 0, values, r, r.ret, 0, NoSlice)

\* w := s.Add(e)
SetAddOp ==
    /\ last.op = "idle"
    /\ \E e \in Keys :
          LET r == SetAdd(heap, cur, e)
          IN  Done("Set.Add", e, 0, <<>>, r, r.ret, 0, NoSlice)

\* w := s.Remove(e)
SetRemoveOp ==
    /\ last.op = "idle"
    /\ \E e \in Keys :
          LET r == SetRemove(heap, cur, e)
          IN  Done("Set.Remove", e, 0, <<>>, r, r.ret, 0, NoSlice)

\* w := a.Union(b)
SetUnionOp ==
    /\ last.op = "idle"
    /\ old # NIL
    /\ LET r == SetUnion(heap, cur, old)
       IN  Done("Set.Union", 0, 0, <<>>, r, r.ret, 0, NoSlice)

\* w := a.Intersection(b)
SetIntersectionOp ==
    /\ last.op = "idle"
    /\ old # NIL
    /\ LET r == SetIntersection(heap, cur, old)
       IN  Done("Set.Intersection", 0, 0, <<>>, r, r.ret, 0, NoSlice)

\* w := a.Difference(b)
SetDifferenceOp ==
    /\ last.op = "idle"
    /\ old # NIL
    /\ LET r == SetDifference(heap, cur, old)
       IN  Done("Set.Difference", 0, 0, <<>>, r, r.ret, 0, NoSlice)

NextSet ==
    \/ SetOfOp
    \/ SetAddOp
    \/ SetRemoveOp
    \/ SetUnionOp
    \/ SetIntersectionOp
    \/ SetDifferenceOp
    \/ Adopt
    \/ Drop

SpecSet == InitSet /\ [][NextSet]_vars

(* ---------------------------- the List client -------------------------- *)
(* The client holds a List, cur, calls one operation on it and either goes *)
(* on with the List the call returned, keeping cur as old, or lets it go.  *)
(***************************************************************************)

\* the client's Lists have up to MaxList elements
MaxList == 3

RECURSIVE ValueSeqs(_)
ValueSeqs(n) ==
    IF n = 0 THEN {<<>>}
    ELSE {Append(q, x) : q \in ValueSeqs(n - 1), x \in Values}

\* the argument lists the client passes to ListOf
ListInputs == UNION {ValueSeqs(n) : n \in 0..MaxList}

InitList ==
    LET e == EmptyList(<<>>)
        order == Visit(e.h, <<e.ret>>, <<>>)
    IN  /\ heap = Compact(e.h, order)
        /\ cur = Ren(order, e.ret)
        /\ old = NIL
        /\ last = Idle
        /\ mutated = FALSE
        /\ snap = [cur |-> Look(e.h, e.ret), old |-> NoObs]
        /\ calls = <<>>
        /\ pub = <<>>

\* w := ListOf(values...), the first call of a client
ListOfOp ==
    /\ last.op = "idle"
    /\ ListSize(heap, cur) = 0
    /\ \E values \in ListInputs :
          LET r == ListOf(heap, values)
          IN  Done("ListOf", Len(values), 0, values, r, r.ret, 0, NoSlice)

\* w := l.Cons(x)
ConsOp ==
    /\ last.op = "idle"
    /\ ListSize(heap, cur) < MaxList
    /\ \E x \in Values :
          LET r == Cons(heap, cur, x)
          IN  Done("List.Cons", 0, x, <<>>, r, r.ret, 0, NoSlice)

\* x := l.Head()
HeadOp ==
    /\ last.op = "idle"
    /\ LET r == ListHead(heap, cur)
       IN  Done("List.Head", 0, 0, <<>>, r, NIL, r.ret, NoSlice)

\* w := l.Tail()
TailOp ==
    /\ last.op = "idle"
    /\ LET r == ListTail(heap, cur)
       IN  Done("List.Tail", 0, 0, <<>>, r, r.ret, 0, NoSlice)

NextList ==
    \/ ListOfOp
    \/ ConsOp
    \/ HeadOp
    \/ TailOp
    \/ Adopt
    \/ Drop

SpecList == InitList /\ [][NextList]_vars

(* ------------------------------- claims -------------------------------- *)

\* the index of the last call is within [0, length) of its receiver
ValidIndex == 0 <= last.index /\ last.index < Length(heap, last.recv)

\* nothing the client holds looks different from when the client got it
Untouched ==
    /\ Observe(heap, cur) = snap.cur
    /\ old # NIL => Observe(heap, old) = snap.old

\* C1: for every valid index i and value x, v.Set(i, x) returns a Vector w with
\* w.Get(i) = x and w.Get(j) = v.Get(j) at every other valid index j, also when
\* i lies in the tree part of v.
C1_SetPersistence ==
    (last.op = "Set" /\ ValidIndex) =>
        /\ last.out = OK
        /\ Get(heap, last.retv, last.index).out = OK
        /\ Get(heap, last.retv, last.index).ret = last.value
        /\ \A j \in 0..(Length(heap, last.recv) - 1) :
              j # last.index =>
                 /\ Get(heap, last.retv, j).out = OK
                 /\ Get(heap, last.recv, j).out = OK
                 /\ Get(heap, last.retv, j).ret = Get(heap, last.recv, j).ret

\* C2: no call writes to an object that existed before it, and every Vector the
\* client holds (the receiver and the version before it, which shares nodes and
\* arrays with it) keeps its fields, the contents of all it reaches and the
\* outcome of every Get, whatever was called since the client got it.
C2_NeverMutated == ~mutated /\ Untouched

\* a Set has succeeded on a Vector with a tree whose root the older version
\* shares, and the result shares it too
C2_Witness ==
    /\ last.op = "Set"
    /\ last.out = OK
    /\ old # NIL
    /\ heap[cur].root # NIL
    /\ heap[old].root = heap[cur].root
    /\ heap[last.retv].root = heap[cur].root

\* C3: v.Append(x) returns a Vector w with w.Length() = v.Length() + 1 and
\* w.Get(v.Length()) = x, for a Vector v of any length.
C3_AppendLaw ==
    last.op = "Append" =>
        /\ last.out = OK
        /\ Length(heap, last.retv) = Length(heap, last.recv) + 1
        /\ Get(heap, last.retv, Length(heap, last.recv)).out = OK
        /\ Get(heap, last.retv, Length(heap, last.recv)).ret = last.value

\* C4: VectorOf(s...) returns a Vector v with v.Length() = len(s), v.Get(i) =
\* s[i] for every i and v.ToSlice() = s, for a sequence s of any length.
C4_RoundTrip ==
    last.op = "VectorOf" =>
        /\ last.out = OK
        /\ Length(heap, last.retv) = Len(last.fn)
        /\ \A i \in 1..Len(last.fn) :
              /\ Get(heap, last.retv, i - 1).out = OK
              /\ Get(heap, last.retv, i - 1).ret = last.fn[i]
        /\ LET t == ToSlice(heap, last.retv)
           IN  t.out = OK /\ SliceElems(t.h, t.ret) = last.fn

\* C5: Append, Map, Filter and VectorOf never fail.
C5_Total ==
    last.op \in {"Append", "Map", "Filter", "VectorOf"} => last.out = OK

\* C6: Get and Set with an index below 0 or at or above the length panic with
\* the out of bounds message; Set then returns no Vector, allocates nothing and
\* writes nothing.
C6_Bounds ==
    (last.op \in {"Get", "Set"} /\ ~ValidIndex) =>
        /\ last.out = OutOfBounds
        /\ last.retv = NIL
        /\ last.allocs = 0
        /\ ~mutated

\* Set was called with index = length on a Vector that has a tree
C6_Witness ==
    /\ last.op = "Set"
    /\ last.index = Length(heap, last.recv)
    /\ heap[last.recv].root # NIL
    /\ last.out = OutOfBounds

\* C7: with a valid index, Get returns a value and Set returns a Vector: no
\* panic of any kind.
C7_OnlyFailure ==
    (last.op \in {"Get", "Set"} /\ ValidIndex) => last.out = OK

\* C8: a Get, Set or Append that fails has written to no object that existed
\* before it, and the receiver and the older version look as before.
C8_FailureLeavesState ==
    (last.op \in {"Get", "Set", "Append"} /\ last.out # OK) =>
        ~mutated /\ Untouched

\* an Append has failed while the client holds two versions
C8_Witness ==
    /\ last.op = "Append"
    /\ last.out # OK
    /\ old # NIL

\* C9: goroutines calling any operations on the same Vector, or on two versions
\* that share a root or an array, with no lock: no step writes to a published
\* object, both Vectors stay as they were handed over, and every call returns
\* what it returns when run alone.
C9_LockFree ==
    /\ ~mutated
    /\ heap = pub
    /\ Untouched
    /\ \A t \in Threads : calls[t].pc = "done" => Returned(t) = Alone(t)

\* an Append on old has returned while a Map over old in the other goroutine is
\* in the middle of its loop
C9_Witness ==
    \E t \in Threads, u \in Threads :
        /\ calls[t].op = "Append" /\ calls[t].pc = "done" /\ calls[t].out = OK
        /\ calls[u].op = "Map" /\ calls[u].pc = "loop" /\ calls[u].i > 0
        /\ calls[t].recv = old /\ calls[u].recv = old
        /\ cur # old

\* C10: v.Map(f) returns a Vector m with m.Length() = v.Length() and m.Get(i) =
\* f(v.Get(i)) for every valid i, for a Vector v of any length.
C10_MapLaw ==
    last.op = "Map" =>
        /\ last.out = OK
        /\ Length(heap, last.retv) = Length(heap, last.recv)
        /\ \A i \in 0..(Length(heap, last.recv) - 1) :
              /\ Get(heap, last.retv, i).out = OK
              /\ Get(heap, last.recv, i).out = OK
              /\ Get(heap, last.retv, i).ret = Apply(last.fn, Get(heap, last.recv, i).ret)

\* C11: v.Filter(p).ToSlice() is the subsequence of v.ToSlice() whose elements
\* satisfy p, in the original order, for a Vector v of any length.
C11_FilterLaw ==
    last.op = "Filter" =>
        /\ last.out = OK
        /\ LET a == ToSlice(heap, last.retv)
               b == ToSlice(heap, last.recv)
           IN  /\ a.out = OK
               /\ b.out = OK
               /\ SliceElems(a.h, a.ret)
                     = SelectSeq(SliceElems(b.h, b.ret), LAMBDA x : Holds(last.fn, x))

\* C12: after appending 0, 1, ..., 32 one at a time to EmptyVector(), Get(32)
\* returns 32 and Get(0) returns 0.
C12_TailPromotion ==
    (/\ last.op = "Get"
     /\ Elems(heap, last.recv) = Iota(vectorNodeSize + 1)
     /\ last.index \in {0, vectorNodeSize}) =>
        /\ last.out = OK
        /\ last.retx = last.index

\* C13: EmptyVector() returns a Vector with no root, an empty tail, length 0
\* and shift = log2(vectorNodeSize) = 5, for which IsEmpty() is true; and for
\* every Vector the client holds, IsEmpty() holds exactly when Length() is 0.
C13_Empty ==
    /\ last.op = "EmptyVector" =>
          /\ last.out = OK
          /\ heap[last.retv].root = NIL
          /\ heap[last.retv].tail.len = 0
          /\ heap[last.retv].length = 0
          /\ heap[last.retv].shift = vectorShift
          /\ 2 ^ heap[last.retv].shift = vectorNodeSize
          /\ IsEmpty(heap, last.retv)
    /\ \A v \in {cur, old, last.retv} \ {NIL} :
          IsEmpty(heap, v) <=> Length(heap, v) = 0

\* EmptyVector() was called by a client that holds a Vector with a tree and a
\* Vector without
C13_Witness ==
    /\ last.op = "EmptyVector"
    /\ heap[cur].root # NIL
    /\ old # NIL
    /\ heap[old].root = NIL
    /\ heap[old].length > 0

\* C14: m.Set(k, v) returns a new Map m2 with m2.Get(k) = (v, true), m2.Get(k2)
\* = m.Get(k2) for every other key k2, and m2.Size() = m.Size() + 1 if k was
\* absent from m and m.Size() if it was present; m's Size and every Get result
\* are as before and nothing of m was written.
C14_MapSet ==
    last.op = "Map.Set" =>
        /\ last.out = OK
        /\ last.retv # last.recv
        /\ MapGet(heap, last.retv, last.index).ret = <<last.value, TRUE>>
        /\ \A k2 \in Keys \ {last.index} :
              MapGet(heap, last.retv, k2).ret = MapGet(heap, last.recv, k2).ret
        /\ MapSize(heap, last.retv)
              = MapSize(heap, last.recv) + (IF MapContains(heap, last.recv, last.index) THEN 0 ELSE 1)
        /\ ~mutated
        /\ Look(heap, last.recv) = snap.cur

\* Set has replaced the value of a key of a Map that holds another key, too
C14_Witness ==
    /\ last.op = "Map.Set"
    /\ MapSize(heap, last.recv) >= 2
    /\ MapContains(heap, last.recv, last.index)
    /\ MapGet(heap, last.recv, last.index).ret # <<last.value, TRUE>>

\* C15: for Sets a and b and every element e, a.Union(b) contains e iff a or b
\* does, a.Intersection(b) iff both do, a.Difference(b) iff a does and b does
\* not; the Size of the result is the number of distinct elements it contains,
\* and a and b are as before, with nothing of them written.
C15_SetAlgebra ==
    last.op \in {"Set.Union", "Set.Intersection", "Set.Difference"} =>
        /\ last.out = OK
        /\ \A e \in Keys :
              SetContains(heap, last.retv, e) <=>
                 IF last.op = "Set.Union"
                 THEN SetContains(heap, cur, e) \/ SetContains(heap, old, e)
                 ELSE IF last.op = "Set.Intersection"
                 THEN SetContains(heap, cur, e) /\ SetContains(heap, old, e)
                 ELSE SetContains(heap, cur, e) /\ ~SetContains(heap, old, e)
        /\ SetSize(heap, last.retv)
              = Cardinality({e \in Keys : SetContains(heap, last.retv, e)})
        /\ Cardinality(Range(SetKeys(heap, last.retv))) = Len(SetKeys(heap, last.retv))
        /\ ~mutated
        /\ Look(heap, cur) = snap.cur
        /\ Look(heap, old) = snap.old

\* a Union of two Sets that overlap and each hold an element the other lacks
C15_Witness ==
    /\ last.op = "Set.Union"
    /\ \E e \in Keys : SetContains(heap, cur, e) /\ SetContains(heap, old, e)
    /\ \E e \in Keys : SetContains(heap, cur, e) /\ ~SetContains(heap, old, e)
    /\ \E e \in Keys : ~SetContains(heap, cur, e) /\ SetContains(heap, old, e)

\* C16: for a List l and a value x, c = l.Cons(x) has Head x and Size
\* l.Size() + 1, and c.Tail() has the elements of l in the same order, while
\* l's Size and elements are as before and nothing of l is written; Head on an
\* empty List panics and Tail on an empty List returns an empty List.
C16_ListCons ==
    /\ last.op = "List.Cons" =>
          /\ last.out = OK
          /\ ListHead(heap, last.retv).out = OK
          /\ ListHead(heap, last.retv).ret = last.value
          /\ ListSize(heap, last.retv) = ListSize(heap, cur) + 1
          /\ LET t == ListTail(heap, last.retv)
             IN  /\ t.out = OK
                 /\ \A a \in DOMAIN heap : t.h[a] = heap[a]
                 /\ ListToSlice(t.h, t.ret).out = OK
                 /\ ListToSlice(t.h, t.ret).ret = ListToSlice(heap, cur).ret
                 /\ ListSize(t.h, t.ret) = ListSize(heap, cur)
          /\ ListToSlice(heap, cur).out = OK
          /\ ~mutated
          /\ Look(heap, cur) = snap.cur
    /\ last.op = "List.Head" /\ ListIsEmpty(heap, cur) =>
          last.out = EmptyListPanic /\ ~mutated
    /\ last.op = "List.Tail" /\ ListIsEmpty(heap, cur) =>
          /\ last.out = OK
          /\ ListIsEmpty(heap, last.retv)
          /\ ListSize(heap, last.retv) = 0
          /\ ListToSlice(heap, last.retv) = Ret(heap, OK, <<>>)
          /\ ~mutated

\* a Cons onto a List of two elements or more that differ from each other
C16_Witness ==
    /\ last.op = "List.Cons"
    /\ ListSize(heap, cur) >= 2
    /\ Cardinality(Range(ListToSlice(heap, cur).ret)) >= 2

\* C17: when len(v.tail) < vectorNodeSize, v.Append(x) returns a Vector with
\* the very root reference of v, the shift of v, length v.length + 1 and a
\* tail in a freshly allocated array that holds v's tail followed by x; the
\* array of v's tail is not written and the new tail does not alias it.
C17_AppendRoom ==
    (last.op = "Append" /\ heap[last.recv].tail.len < vectorNodeSize) =>
        /\ last.out = OK
        /\ LET v == heap[last.recv]
               w == heap[last.retv]
           IN  /\ w.root = v.root
               /\ w.shift = v.shift
               /\ w.length = v.length + 1
               /\ SliceElems(heap, w.tail) = Append(SliceElems(heap, v.tail), last.value)
               /\ w.tail.ptr # v.tail.ptr
               /\ w.tail.ptr \notin Reach(heap, {cur, old} \ {NIL})
        /\ ~mutated
        /\ Untouched

\* an Append to a Vector that has a tree and a tail of some elements with room
C17_Witness ==
    /\ last.op = "Append"
    /\ heap[last.recv].root # NIL
    /\ heap[last.recv].tail.len >= 2
    /\ heap[last.recv].tail.len < vectorNodeSize
    /\ Cardinality(Range(SliceElems(heap, heap[last.recv].tail))) >= 2

\* C18: for every Vector v with len(v.tail) = vectorNodeSize, whether its root
\* is absent or already holds leaf blocks, v.Append(x) returns a Vector whose
\* tail is exactly [x] and whose tree holds all leaf blocks of v's tree, shared
\* and unchanged, followed by v's old tail as the rightmost leaf block.
C18_AppendFull ==
    (last.op = "Append" /\ heap[last.recv].tail.len = vectorNodeSize) =>
        /\ last.out = OK
        /\ LET v == heap[last.recv]
               w == heap[last.retv]
               RECURSIVE Leaves(_)
               Leaves(c) ==
                   IF c.t = "slice" THEN <<c.s>>
                   ELSE IF c.t = "elem" \/ c.p = NIL THEN <<>>
                   ELSE LET kids == heap[c.p].children
                            RECURSIVE Cat(_)
                            Cat(i) == IF i > Len(kids) THEN <<>>
                                      ELSE Leaves(kids[i]) \o Cat(i + 1)
                        IN  Cat(1)
           IN  /\ SliceElems(heap, w.tail) = <<last.value>>
               /\ Leaves(INode(w.root)) = Leaves(INode(v.root)) \o <<v.tail>>
               /\ w.length = v.length + 1
        /\ ~mutated
        /\ Untouched

\* C20: for a Vector v and an index i with v.length - len(v.tail) <= i <
\* v.length, v.Set(i, x) returns a Vector with the very root reference of v,
\* the length and shift of v, and a tail in a freshly allocated array equal to
\* v's tail except at position i - (v.length - len(v.tail)), which holds x;
\* the array of v's tail is not written.
C20_SetInTail ==
    (/\ last.op = "Set"
     /\ ValidIndex
     /\ last.index >= heap[last.recv].length - heap[last.recv].tail.len) =>
        /\ last.out = OK
        /\ LET v == heap[last.recv]
               w == heap[last.retv]
               pos == last.index - (v.length - v.tail.len)
           IN  /\ w.root = v.root
               /\ w.length = v.length
               /\ w.shift = v.shift
               /\ w.tail.ptr # v.tail.ptr
               /\ w.tail.ptr \notin Reach(heap, {cur, old} \ {NIL})
               /\ SliceElems(heap, w.tail)
                     = [SliceElems(heap, v.tail) EXCEPT ![pos + 1] = last.value]
        /\ ~mutated
        /\ Untouched

\* a Set that changes an element of the tail of a Vector that has a tree
C20_Witness ==
    /\ last.op = "Set"
    /\ ValidIndex
    /\ heap[last.recv].root # NIL
    /\ last.index >= heap[last.recv].length - heap[last.recv].tail.len
    /\ heap[last.recv].tail.len >= 2
    /\ Get(heap, last.recv, last.index).ret # last.value

\* C21: for a Vector v and an index i with 0 <= i < v.length - len(v.tail),
\* v.Set(i, x) returns a Vector that keeps v's tail, length and shift, whose
\* tree differs from v's only along the one path from the root to index i, each
\* node on it a new copy with one slot changed, every other slot holding the
\* same reference as in v.
C21_SetInTree ==
    (/\ last.op = "Set"
     /\ ValidIndex
     /\ last.index < heap[last.recv].length - heap[last.recv].tail.len) =>
        /\ last.out = OK
        /\ LET v == heap[last.recv]
               w == heap[last.retv]
               RECURSIVE PathCopy(_, _, _)
               PathCopy(m, n, level) ==
                   /\ m # NIL /\ n # NIL /\ m # n
                   /\ n \notin Reach(heap, {cur, old} \ {NIL})
                   /\ LET a == heap[m].children
                          b == heap[n].children
                          subIdx == SubIdx(last.index, level)
                      IN  /\ Len(a) = Len(b)
                          /\ subIdx < Len(a)
                          /\ \A j \in 1..Len(a) : j # subIdx + 1 => b[j] = a[j]
                          /\ IF level = 0
                             THEN b[subIdx + 1] = IElem(last.value)
                             ELSE /\ a[subIdx + 1].t = "node"
                                  /\ b[subIdx + 1].t = "node"
                                  /\ PathCopy(a[subIdx + 1].p, b[subIdx + 1].p,
                                              level - vectorShift)
           IN  /\ w.tail = v.tail
               /\ w.length = v.length
               /\ w.shift = v.shift
               /\ PathCopy(v.root, w.root, v.shift)
        /\ ~mutated
        /\ Untouched

\* C22: in every Vector, len(tail) <= vectorNodeSize and the tree under root
\* holds exactly length - len(tail) elements, none when root is absent.
C22_TailInvariant ==
    \A a \in DOMAIN heap : heap[a].kind = "vector" =>
        /\ heap[a].tail.len <= vectorNodeSize
        /\ Len(Flatten(heap, INode(heap[a].root))) = heap[a].length - heap[a].tail.len

\* a Vector with a tree and a tail that is neither one element nor full
C22_Witness ==
    \E a \in DOMAIN heap :
        /\ heap[a].kind = "vector"
        /\ heap[a].root # NIL
        /\ heap[a].tail.len > 1
        /\ heap[a].tail.len < vectorNodeSize

\* C23: in every Vector, vectorNodeSize^(shift / vectorShift + 1) >= length -
\* len(tail): the tree never holds more elements than a tree of the recorded
\* shift can address.
C23_Capacity ==
    \A a \in DOMAIN heap : heap[a].kind = "vector" =>
        vectorNodeSize ^ ((heap[a].shift \div vectorShift) + 1)
            >= heap[a].length - heap[a].tail.len

\* a Vector of the greatest length, with a tree and a full tail
C23_Witness ==
    \E a \in DOMAIN heap :
        /\ heap[a].kind = "vector"
        /\ heap[a].root # NIL
        /\ heap[a].tail.len = vectorNodeSize
        /\ Len(Flatten(heap, INode(heap[a].root))) = vectorNodeSize

\* C24: in every Vector with a root, the tree pushTail built has the shape Get
\* and setNode descend: for every tree index i, each slot children[(i >> level)
\* & (vectorNodeSize - 1)] visited for level = shift down to vectorShift holds
\* a *vectorNode, and the slot children[i & (vectorNodeSize - 1)] read at the
\* end holds one element of type T, not a tail slice.
C24_Representation ==
    \A a \in DOMAIN heap : (heap[a].kind = "vector" /\ heap[a].root # NIL) =>
        LET RECURSIVE Descends(_, _, _)
            Descends(node, level, i) ==
                /\ node # NIL
                /\ LET kids   == heap[node].children
                       subIdx == SubIdx(i, level)
                   IN  /\ subIdx < Len(kids)
                       /\ IF level > 0
                          THEN /\ kids[subIdx + 1].t = "node"
                               /\ Descends(kids[subIdx + 1].p, level - vectorShift, i)
                          ELSE kids[subIdx + 1].t = "elem"
        IN  \A i \in 0..(heap[a].length - heap[a].tail.len - 1) :
                Descends(heap[a].root, heap[a].shift, i)

C26_ConstantHeight ==
    /\ \A a \in DOMAIN heap : heap[a].kind = "vector" => heap[a].shift = vectorShift
    /\ (last.op \in {"Append", "Set", "Map", "Filter"} /\ last.out = OK) =>
          heap[last.retv].shift = heap[last.recv].shift

\* the Vector an Append returned after pushing a full tail into the tree
C26_Witness ==
    /\ last.op = "Append"
    /\ last.out = OK
    /\ heap[last.recv].tail.len = vectorNodeSize
    /\ heap[last.retv].root # NIL
    /\ heap[last.retv].length = vectorNodeSize + 1

\* C27: along calls of EmptyVector, VectorOf, Append, Set, Map and Filter in
\* which every Vector has length <= vectorNodeSize, so that root stays absent,
\* each Vector behaves as a plain immutable sequence: Length, Get(i) for every
\* valid i and ToSlice agree with the same operations on an abstract list, and
\* no call fails except Get and Set with an index out of range.
C27_SmallRefinement ==
    LET Abs(a) == Seq1([i \in 1..heap[a].length |-> Get(heap, a, i - 1).ret],
                       heap[a].length)
        Small(a) == heap[a].length <= vectorNodeSize
        l == Abs(last.recv)
        w == Abs(last.retv)
    IN  /\ \A a \in DOMAIN heap : (heap[a].kind = "vector" /\ Small(a)) =>
              /\ heap[a].root = NIL
              /\ \A i \in 0..(heap[a].length - 1) : Get(heap, a, i).out = OK
              /\ Length(heap, a) = Len(SliceElems(heap, heap[a].tail))
        /\ (/\ last.op \in {"Append", "Set", "Map", "Filter", "Get", "ToSlice", "ForEach"}
            /\ Small(last.recv)
            /\ last.op = "Append" => Length(heap, last.recv) < vectorNodeSize) =>
              /\ last.out # OK <=> (last.op \in {"Get", "Set"} /\ ~ValidIndex)
              /\ last.out # OK => last.out = OutOfBounds
              /\ ~mutated
              /\ Length(heap, last.recv) = Len(l)
              /\ (last.out = OK /\ last.op = "Append") =>
                    Length(heap, last.retv) = Len(l) + 1 /\ w = Append(l, last.value)
              /\ (last.out = OK /\ last.op = "Set") =>
                    w = [l EXCEPT ![last.index + 1] = last.value]
              /\ (last.out = OK /\ last.op = "Map") =>
                    w = Seq1([i \in 1..Len(l) |-> Apply(last.fn, l[i])], Len(l))
              /\ (last.out = OK /\ last.op = "Filter") =>
                    w = SelectSeq(l, LAMBDA x : Holds(last.fn, x))
              /\ (last.out = OK /\ last.op = "Get") =>
                    last.retx = l[last.index + 1]
              /\ (last.out = OK /\ last.op = "ToSlice") =>
                    SliceElems(heap, last.rets) = l
              /\ (last.out = OK /\ last.op = "ForEach") =>
                    last.fn = l
        /\ last.op = "EmptyVector" =>
              last.out = OK /\ w = <<>> /\ Length(heap, last.retv) = 0
        /\ (last.op = "VectorOf" /\ last.index <= vectorNodeSize) =>
              last.out = OK /\ w = last.fn /\ Length(heap, last.retv) = Len(last.fn)

\* a Filter of a Vector of vectorNodeSize elements that keeps some and drops
\* some
C27_Witness ==
    /\ last.op = "Filter"
    /\ last.out = OK
    /\ Length(heap, last.recv) = vectorNodeSize
    /\ Length(heap, last.retv) > 0
    /\ Length(heap, last.retv) < vectorNodeSize

\* C28: in every Vector v, also one with length > vectorNodeSize, v.Get(i)
\* succeeds for every i with v.length - len(v.tail) <= i < v.length and
\* returns the value last appended or set at position i on the way to v; and
\* len(v.tail) >= 1 whenever v.length > 0, so the last element is in the tail.
C28_TailReadable ==
    LET InTail(a, i) == heap[a].length - heap[a].tail.len <= i /\ i < heap[a].length
        TailIdx(a) == (heap[a].length - heap[a].tail.len)..(heap[a].length - 1)
    IN  /\ \A a \in DOMAIN heap : heap[a].kind = "vector" =>
              /\ heap[a].length > 0 => heap[a].tail.len >= 1
              /\ \A i \in TailIdx(a) : Get(heap, a, i).out = OK
        /\ (last.op = "VectorOf" /\ last.out = OK) =>
              \A i \in TailIdx(last.retv) : Get(heap, last.retv, i).ret = last.fn[i + 1]
        /\ (last.op = "Append" /\ last.out = OK) =>
              /\ InTail(last.retv, Length(heap, last.recv))
              /\ \A i \in TailIdx(last.retv) :
                    IF i = Length(heap, last.recv)
                    THEN Get(heap, last.retv, i).ret = last.value
                    ELSE /\ InTail(last.recv, i)
                         /\ Get(heap, last.retv, i).ret = Get(heap, last.recv, i).ret
        /\ (last.op = "Set" /\ last.out = OK) =>
              /\ TailIdx(last.retv) = TailIdx(last.recv)
              /\ \A i \in TailIdx(last.retv) :
                    Get(heap, last.retv, i).ret
                       = IF i = last.index THEN last.value ELSE Get(heap, last.recv, i).ret
        /\ (last.op = "Map" /\ last.out = OK) =>
              \A i \in TailIdx(last.retv) :
                  /\ InTail(last.recv, i)
                  /\ Get(heap, last.retv, i).ret = Apply(last.fn, Get(heap, last.recv, i).ret)
        /\ (last.op = "Get" /\ InTail(last.recv, last.index)) =>
              /\ last.out = OK
              /\ last.retx = SliceElems(heap, heap[last.recv].tail)
                                [last.index - (heap[last.recv].length - heap[last.recv].tail.len) + 1]

\* a Get in the tail of a Vector with a tree, at an index past vectorNodeSize
C28_Witness ==
    /\ last.op = "Get"
    /\ heap[last.recv].root # NIL
    /\ last.index > vectorNodeSize
    /\ last.index < Length(heap, last.recv)
    /\ last.out = OK

\* C29: after any calls of EmptyMap, MapOf, Set, Delete, Map and Filter, the
\* pairs of every Map hold each key at most once, so Size() is the number of
\* distinct keys; Get(k) returns the value of the latest Set(k, _) that no
\* Delete(k) followed; and MapOf with a repeated key keeps one pair for it,
\* holding the last value given.
C29_KeysUnique ==
    LET Pairs(m) == SliceElems(heap, heap[m].pairs)
        KeysOf(q) == {q[i].Key : i \in 1..Len(q)}
        Latest(q, k) ==
            IF k \notin KeysOf(q) THEN <<0, FALSE>>
            ELSE <<q[CHOOSE i \in 1..Len(q) :
                        q[i].Key = k /\ \A j \in (i + 1)..Len(q) : q[j].Key # k].Value,
                   TRUE>>
    IN  /\ \A m \in DOMAIN heap : heap[m].kind = "map" =>
              /\ \A i, j \in 1..Len(Pairs(m)) :
                    i # j => Pairs(m)[i].Key # Pairs(m)[j].Key
              /\ MapSize(heap, m) = Cardinality(KeysOf(Pairs(m)))
              /\ MapSize(heap, m) = Cardinality({k \in Keys : MapContains(heap, m, k)})
        /\ last.op = "MapOf" =>
              /\ MapSize(heap, last.retv) = Cardinality(KeysOf(last.fn))
              /\ \A k \in Keys : MapGet(heap, last.retv, k).ret = Latest(last.fn, k)
        /\ last.op = "Map.Set" =>
              \A k \in Keys :
                  MapGet(heap, last.retv, k).ret
                     = IF k = last.index THEN <<last.value, TRUE>>
                       ELSE MapGet(heap, last.recv, k).ret
        /\ last.op = "Map.Delete" =>
              \A k \in Keys :
                  MapGet(heap, last.retv, k).ret
                     = IF k = last.index THEN <<0, FALSE>>
                       ELSE MapGet(heap, last.recv, k).ret
        /\ last.op = "Map.Map" =>
              \A k \in Keys :
                  MapGet(heap, last.retv, k).ret
                     = IF MapContains(heap, last.recv, k)
                       THEN <<Apply(last.fn, MapGet(heap, last.recv, k).ret[1]), TRUE>>
                       ELSE <<0, FALSE>>
        /\ last.op = "Map.Filter" =>
              \A k \in Keys :
                  MapGet(heap, last.retv, k).ret
                     = IF /\ MapContains(heap, last.recv, k)
                          /\ Pair(k, MapGet(heap, last.recv, k).ret[1])[last.fn.on] >= last.fn.t
                       THEN MapGet(heap, last.recv, k).ret
                       ELSE <<0, FALSE>>
        /\ last.op = "Map.Get" => last.retx = MapGet(heap, last.recv, last.index).ret
        /\ last.op \in {"MapOf", "Map.Set", "Map.Delete", "Map.Map", "Map.Filter"} =>
              last.out = OK /\ ~mutated /\ Look(heap, last.recv) = snap.cur

\* MapOf given the same key twice, with two values
C29_Witness ==
    /\ last.op = "MapOf"
    /\ Len(last.fn) >= 2
    /\ last.fn[1].Key = last.fn[2].Key
    /\ last.fn[1].Value # last.fn[2].Value

\* C30: writing to the slice Map.ToSlice returned, or the one Map.Keys or
\* Map.Values returned, never changes what the Map it came from returns
\* afterwards from Get, Size or ToSlice: the slice shares no storage with the
\* Map.
C30_NoExposure ==
    /\ last.op = "s[i] = x" =>
          /\ Look(heap, cur) = snap.cur
          /\ old # NIL => Look(heap, old) = snap.old
    /\ (last.op \in {"Map.ToSlice", "Map.Keys", "Map.Values"} /\ last.rets.cap > 0) =>
          last.rets.ptr \notin Reach(heap, {cur, old} \ {NIL})

====
